---------------------------- MODULE Spec2Model ----------------------------
(***************************************************************************)
(* A model of the SQL validation engine of SqlPile: the type unifier       *)
(* (tools/sql_types.py), the dialect normalizer                            *)
(* (execution/prepare_sql_for_execution.py), the execution validator       *)
(* (execution/mock_query.py) and the repository orchestrator               *)
(* (execute_queries.py).                                                   *)
(*                                                                         *)
(* Text is modelled as a sequence of one-character strings, so that        *)
(* lower-casing, stripping, substring search and the regular expressions   *)
(* of the source are computed character by character.                      *)
(***************************************************************************)
EXTENDS Integers, Sequences, FiniteSets, TLC

(***************************************************************************)
(* Characters and Python's str helpers                                     *)
(***************************************************************************)

\* Python's None: a one-element tuple holding a token that is no character.
None == <<"None">>

\* str.lower() on the ASCII letters.
LowerMap ==
    ("A" :> "a") @@ ("B" :> "b") @@ ("C" :> "c") @@ ("D" :> "d") @@ ("E" :> "e") @@ ("F" :> "f") @@ ("G" :> "g") @@ ("H" :> "h") @@ ("I" :> "i") @@ ("J" :> "j") @@ ("K" :> "k") @@ ("L" :> "l") @@ ("M" :> "m") @@ ("N" :> "n") @@ ("O" :> "o") @@ ("P" :> "p") @@ ("Q" :> "q") @@ ("R" :> "r") @@ ("S" :> "s") @@ ("T" :> "t") @@ ("U" :> "u") @@ ("V" :> "v") @@ ("W" :> "w") @@ ("X" :> "x") @@ ("Y" :> "y") @@ ("Z" :> "z")

UpperLetters == DOMAIN LowerMap

LowerLetters == { LowerMap[c] : c \in UpperLetters }

\* The backtick character, which a TLA+ string cannot hold.
Backtick == "BACKTICK"

Digits == {"0", "1", "2", "3", "4", "5", "6", "7", "8", "9"}

\* \s of Python's re and the characters str.strip() removes (ASCII part).
WhiteSpace == {" ", "\t", "\n"}

\* \w of Python's re (ASCII part).
IsWordChar(c) == c \in LowerLetters \cup UpperLetters \cup Digits \cup {"_"}

\* str.lower() that leaves every character as it is.
lower_Unchanged(s) == s

\* str.lower()
lower(s) == [i \in 1..Len(s) |-> IF s[i] \in UpperLetters THEN LowerMap[s[i]] ELSE s[i]]

\* str.upper()
upper(s) ==
    [i \in 1..Len(s) |->
        IF s[i] \in LowerLetters
        THEN CHOOSE c \in UpperLetters : LowerMap[c] = s[i]
        ELSE s[i]]

RECURSIVE lstrip(_)
lstrip(s) == IF s # <<>> /\ Head(s) \in WhiteSpace THEN lstrip(Tail(s)) ELSE s

RECURSIVE rstrip(_)
rstrip(s) ==
    IF s # <<>> /\ s[Len(s)] \in WhiteSpace THEN rstrip(SubSeq(s, 1, Len(s) - 1)) ELSE s

\* str.strip()
strip(s) == rstrip(lstrip(s))

\* s[i:] of Python, with i counted from 1.
From(s, i) == SubSeq(s, i, Len(s))

\* Does sub occur in s at position i?
OccursAt(s, sub, i) ==
    /\ i >= 1
    /\ i + Len(sub) - 1 <= Len(s)
    /\ SubSeq(s, i, i + Len(sub) - 1) = sub

\* Python's `sub in s`
Contains(s, sub) == \E i \in 1..(Len(s) + 1) : OccursAt(s, sub, i)

\* str.startswith / str.endswith
StartsWith(s, sub) == OccursAt(s, sub, 1)

EndsWith(s, sub) == OccursAt(s, sub, Len(s) - Len(sub) + 1)

\* \b of Python's re at the gap after position p (0 = before the first character).
IsBoundary(t, p) ==
    LET before == p >= 1 /\ IsWordChar(t[p])
        after  == p + 1 <= Len(t) /\ IsWordChar(t[p + 1])
    IN  before # after

\* re.search(r'\b(a1|a2|...)\b', t) is not None, for literal alternatives.
SearchWord(alts, t) ==
    \E i \in 1..Len(t) :
        /\ IsBoundary(t, i - 1)
        /\ \E j \in i..Len(t) : IsBoundary(t, j) /\ SubSeq(t, i, j) \in alts

\* The end of the longest run of characters of class cls starting at position i
\* (i - 1 when t[i] is not in cls): a greedy \d+, \s* or \w+.
RECURSIVE RunEnd(_, _, _)
RunEnd(t, i, cls) ==
    IF i <= Len(t) /\ t[i] \in cls THEN RunEnd(t, i + 1, cls) ELSE i - 1

\* The patterns and literals of tools/sql_types.py, character by character.
TEXT_VARYING ==
    { <<"c","h","a","r","v","a","r","y","i","n","g">>, <<"c","h","a","r"," ","v","a","r","y","i","n","g">>,
      <<"c","h","a","r","_","v","a","r","y","i","n","g">>, <<"s","t","r","i","n","g">>,
      <<"l","o","n","g","v","a","r","c","h","a","r">>, <<"v","a","r","c","h","a","r">>,
      <<"c","h","a","r","a","c","t","e","r">>,
      <<"c","h","a","r","a","c","t","e","r","v","a","r","y","i","n","g">>,
      <<"l","o","n","g","t","e","x","t">>, <<"n","v","a","r","c","h","a","r">>,
      <<"v","a","r","c","h","a","r","2">>, <<"n","v","a","r","c","h","a","r","2">>, <<"t","e","x","t">>,
      <<"c","l","o","b">> }

TEXT_FIXED ==
    { <<"c","h","a","r">>, <<"n","c","h","a","r">>, <<"b","p","c","h","a","r">>,
      <<"m","e","d","i","u","m","t","e","x","t">>, <<"t","i","n","y","t","e","x","t">>,
      <<"c","h","a","r","a","c","t","e","r"," ","v","a","r","y","i","n","g">> }

FLOATING ==
    { <<"f","l","o","a","t">>, <<"f","l","o","a","t","4">>, <<"f","l","o","a","t","8">>,
      <<"d","o","u","b","l","e">>, <<"d","o","u","b","l","e","p","r","e","c","i","s","i","o","n">>,
      <<"r","e","a","l">>, <<"d","e","c","i","m","a","l">>, <<"d","e","c">>,
      <<"n","u","m","e","r","i","c">>, <<"n","u","m","b","e","r">> }

BOOLEAN_TYPE ==
    { <<"b","o","o","l">>, <<"b","o","o","l","e","a","n">>,
      <<"b","o","o","l","e","a","n","_","c","h","a","r">> }

DATE_TIME ==
    { <<"d","a","t","e">>, <<"t","i","m","e">>, <<"d","a","t","e","t","i","m","e">>,
      <<"d","a","t","e","t","i","m","e","2">>, <<"t","i","m","e","_","s","t","a","m","p">>,
      <<"t","i","m","e","s","t","a","m","p">>, <<"t","i","m","e","s","t","a","m","p","t","z">>,
      <<"s","m","a","l","l","d","a","t","e","t","i","m","e">>, <<"t","i","m","e","t","z">>,
      <<"i","n","t","e","r","v","a","l">> }

BINARY ==
    { <<"b","l","o","b">>, <<"b","i","n","a","r","y">>, <<"v","a","r","b","i","n","a","r","y">>,
      <<"b","y","t","e","a">>, <<"i","m","a","g","e">>, <<"l","o","n","g","b","l","o","b">>,
      <<"m","e","d","i","u","m","b","l","o","b">>, <<"t","i","n","y","b","l","o","b">> }

JSON_TYPE ==
    { <<"j","s","o","n">>, <<"j","s","o","n","b">> }

UUID_TYPE ==
    { <<"u","u","i","d">>, <<"u","n","i","q","u","e","i","d","e","n","t","i","f","i","e","r">> }

XML_TYPE ==
    { <<"x","m","l">> }

ENUM_TYPE ==
    { <<"e","n","u","m">>, <<"s","e","t">> }


\* The canonical names unify_type returns.
Name ==
    [ Int8 |-> <<"I","n","t","8">>,
      UInt8 |-> <<"U","I","n","t","8">>,
      Int16 |-> <<"I","n","t","1","6">>,
      UInt16 |-> <<"U","I","n","t","1","6">>,
      Int24 |-> <<"I","n","t","2","4">>,
      UInt24 |-> <<"U","I","n","t","2","4">>,
      Int32 |-> <<"I","n","t","3","2">>,
      UInt32 |-> <<"U","I","n","t","3","2">>,
      Int64 |-> <<"I","n","t","6","4">>,
      UInt64 |-> <<"U","I","n","t","6","4">>,
      Other |-> <<"O","T","H","E","R">>,
      ARRAY |-> <<"A","R","R","A","Y">>,
      Float |-> <<"F","l","o","a","t">>,
      Enum |-> <<"E","n","u","m">>,
      VARCHAR |-> <<"V","A","R","C","H","A","R">>,
      CHAR |-> <<"C","H","A","R">>,
      Boolean |-> <<"B","o","o","l","e","a","n">>,
      Timestamp |-> <<"T","i","m","e","s","t","a","m","p">>,
      Binary |-> <<"B","i","n","a","r","y">>,
      JSON |-> <<"J","S","O","N">>,
      UUID |-> <<"U","U","I","D">>,
      XML |-> <<"X","M","L">> ]

\* The string literals of unify_type and of prepare_sql_statically.
Lit ==
    [ array |-> <<"a","r","r","a","y">>,
      number |-> <<"n","u","m","b","e","r">>,
      numeric |-> <<"n","u","m","e","r","i","c">>,
      decimal |-> <<"d","e","c","i","m","a","l">>,
      unsigned |-> <<"u","n","s","i","g","n","e","d">>,
      double |-> <<"d","o","u","b","l","e">>,
      precision |-> <<"p","r","e","c","i","s","i","o","n">>,
      limit |-> <<"l","i","m","i","t">>,
      offset |-> <<" ","o","f","f","s","e","t"," ">>,
      rand |-> <<"r","a","n","d">>,
      random_call |-> <<"r","a","n","d","o","m","(",")">>,
      param_name |-> <<":","p","a","r","a","m","_","n","a","m","e">>,
      date_format |-> <<"d","a","t","e","_","f","o","r","m","a","t">>,
      strftime |-> <<"s","t","r","f","t","i","m","e">> ]

(***************************************************************************)
(* Type Unifier: tools/sql_types.py                                        *)
(***************************************************************************)

\* _FLOATING's alternative double\s+precision, which is no literal.
SearchDoublePrecision(t) ==
    \E i \in 1..Len(t) :
        /\ IsBoundary(t, i - 1)
        /\ OccursAt(t, Lit.double, i)
        /\ LET k == RunEnd(t, i + Len(Lit.double), WhiteSpace)
           IN  /\ k >= i + Len(Lit.double)
               /\ OccursAt(t, Lit.precision, k + 1)
               /\ IsBoundary(t, k + Len(Lit.precision))

\* _FLOATING.search(t)
SearchFloating(t) == SearchWord(FLOATING, t) \/ SearchDoublePrecision(t)

\* The result of a call: a returned (name, category) pair or a raised exception.
Return(name, category) ==
    [raised |-> FALSE, exception |-> "", name |-> name, category |-> category]

Raise(exception) ==
    [raised |-> TRUE, exception |-> exception, name |-> <<>>, category |-> ""]

\* re.search(r'\((\d+)(?:,(\d+))?\)', t) tried at position i: "(" digits
\* [ "," digits ] ")".  scale is <<>> when group 2 did not take part.
MatchPrecisionScaleAt(t, i) ==
    LET e1 == RunEnd(t, i + 1, Digits)
        e2 == RunEnd(t, e1 + 2, Digits)
    IN  IF ~(i <= Len(t) /\ t[i] = "(" /\ e1 >= i + 1 /\ e1 + 1 <= Len(t))
        THEN [matched |-> FALSE, precision |-> <<>>, scale |-> <<>>]
        ELSE IF t[e1 + 1] = ")"
        THEN [matched |-> TRUE, precision |-> SubSeq(t, i + 1, e1), scale |-> <<>>]
        ELSE IF t[e1 + 1] = "," /\ e2 >= e1 + 2 /\ e2 + 1 <= Len(t) /\ t[e2 + 1] = ")"
        THEN [matched |-> TRUE, precision |-> SubSeq(t, i + 1, e1),
              scale |-> SubSeq(t, e1 + 2, e2)]
        ELSE [matched |-> FALSE, precision |-> <<>>, scale |-> <<>>]

\* re.search(r'\((\d+)(?:,(\d+))?\)', t): the leftmost match.
SearchPrecisionScale(t) ==
    LET starts == { i \in 1..Len(t) : MatchPrecisionScaleAt(t, i).matched }
    IN  IF starts = {}
        THEN [matched |-> FALSE, precision |-> <<>>, scale |-> <<>>]
        ELSE MatchPrecisionScaleAt(t, CHOOSE i \in starts : \A k \in starts : i <= k)

\* The end of the greedy match of \(.*\) that starts at position i, 0 if none:
\* the last ")" after i with no newline in between ('.' matches no newline).
QualifierEnd(t, i) ==
    LET ends == { j \in (i + 1)..Len(t) :
                    t[j] = ")" /\ \A k \in (i + 1)..(j - 1) : t[k] # "\n" }
    IN  IF i > Len(t) \/ t[i] # "(" \/ ends = {}
        THEN 0
        ELSE CHOOSE j \in ends : \A k \in ends : k <= j

\* re.sub(r'\(.*\)', '', t)
RECURSIVE StripQualifiers(_)
StripQualifiers(t) ==
    LET starts == { i \in 1..Len(t) : QualifierEnd(t, i) # 0 }
    IN  IF starts = {}
        THEN t
        ELSE LET i == CHOOSE x \in starts : \A k \in starts : x <= k
             IN  SubSeq(t, 1, i - 1) \o StripQualifiers(From(t, QualifierEnd(t, i) + 1))

\* _CANONICALS, in the order the loop tries them: <<alternatives, signed, unsigned>>.
CANONICALS ==
    <<
    <<
        { <<"b","i","t">>, <<"b","i","t","s","i","g","n","e","d">>, <<"b","i","t","u">>,
          <<"b","i","t","u","n","s","i","g","n","e","d">>, <<"i","n","t","1">>,
          <<"i","n","t","1","s","i","g","n","e","d">>, <<"i","n","t","1","u">>,
          <<"i","n","t","1","u","n","s","i","g","n","e","d">>, <<"i","n","t","8">>,
          <<"i","n","t","8","s","i","g","n","e","d">>, <<"i","n","t","8","u">>,
          <<"i","n","t","8","u","n","s","i","g","n","e","d">>, <<"s","i","g","n","e","d","b","i","t">>,
          <<"s","i","g","n","e","d","i","n","t","1">>, <<"s","i","g","n","e","d","i","n","t","8">>,
          <<"s","i","g","n","e","d","t","i","n","y","i","n","t">>, <<"t","i","n","y","i","n","t">>,
          <<"t","i","n","y","i","n","t","s","i","g","n","e","d">>, <<"t","i","n","y","i","n","t","u">>,
          <<"t","i","n","y","i","n","t","u","n","s","i","g","n","e","d">>, <<"u","b","i","t">>,
          <<"u","i","n","t","1">>, <<"u","i","n","t","8">>, <<"u","n","s","i","g","n","e","d","b","i","t">>,
          <<"u","n","s","i","g","n","e","d","i","n","t","1">>,
          <<"u","n","s","i","g","n","e","d","i","n","t","8">>,
          <<"u","n","s","i","g","n","e","d","t","i","n","y","i","n","t">>, <<"u","t","i","n","y","i","n","t">> },
        Name.Int8, Name.UInt8 >>,
    <<
        { <<"i","n","t","1","6">>, <<"i","n","t","1","6","s","i","g","n","e","d">>,
          <<"i","n","t","1","6","u">>, <<"i","n","t","1","6","u","n","s","i","g","n","e","d">>,
          <<"i","n","t","2">>, <<"i","n","t","2","s","i","g","n","e","d">>, <<"i","n","t","2","u">>,
          <<"i","n","t","2","u","n","s","i","g","n","e","d">>, <<"s","i","g","n","e","d","i","n","t","1","6">>,
          <<"s","i","g","n","e","d","i","n","t","2">>,
          <<"s","i","g","n","e","d","s","m","a","l","l","i","n","t">>,
          <<"s","i","g","n","e","d","s","m","a","l","l","s","e","r","i","a","l">>,
          <<"s","m","a","l","l","i","n","t">>, <<"s","m","a","l","l","i","n","t","s","i","g","n","e","d">>,
          <<"s","m","a","l","l","i","n","t","u">>,
          <<"s","m","a","l","l","i","n","t","u","n","s","i","g","n","e","d">>,
          <<"s","m","a","l","l","s","e","r","i","a","l">>,
          <<"s","m","a","l","l","s","e","r","i","a","l","s","i","g","n","e","d">>,
          <<"s","m","a","l","l","s","e","r","i","a","l","u">>,
          <<"s","m","a","l","l","s","e","r","i","a","l","u","n","s","i","g","n","e","d">>,
          <<"u","i","n","t","1","6">>, <<"u","i","n","t","2">>,
          <<"u","n","s","i","g","n","e","d","i","n","t","1","6">>,
          <<"u","n","s","i","g","n","e","d","i","n","t","2">>,
          <<"u","n","s","i","g","n","e","d","s","m","a","l","l","i","n","t">>,
          <<"u","n","s","i","g","n","e","d","s","m","a","l","l","s","e","r","i","a","l">>,
          <<"u","s","m","a","l","l","i","n","t">>, <<"u","s","m","a","l","l","s","e","r","i","a","l">> },
        Name.Int16, Name.UInt16 >>,
    <<
        { <<"i","n","t","2","4">>, <<"i","n","t","2","4","s","i","g","n","e","d">>,
          <<"i","n","t","2","4","u">>, <<"i","n","t","2","4","u","n","s","i","g","n","e","d">>,
          <<"i","n","t","3">>, <<"i","n","t","3","s","i","g","n","e","d">>, <<"i","n","t","3","u">>,
          <<"i","n","t","3","u","n","s","i","g","n","e","d">>, <<"m","e","d","i","u","m","i","n","t">>,
          <<"m","e","d","i","u","m","i","n","t","s","i","g","n","e","d">>,
          <<"m","e","d","i","u","m","i","n","t","u">>,
          <<"m","e","d","i","u","m","i","n","t","u","n","s","i","g","n","e","d">>,
          <<"s","i","g","n","e","d","i","n","t","2","4">>, <<"s","i","g","n","e","d","i","n","t","3">>,
          <<"s","i","g","n","e","d","m","e","d","i","u","m","i","n","t">>, <<"u","i","n","t","2","4">>,
          <<"u","i","n","t","3">>, <<"u","m","e","d","i","u","m","i","n","t">>,
          <<"u","n","s","i","g","n","e","d","i","n","t","2","4">>,
          <<"u","n","s","i","g","n","e","d","i","n","t","3">>,
          <<"u","n","s","i","g","n","e","d","m","e","d","i","u","m","i","n","t">> },
        Name.Int24, Name.UInt24 >>,
    <<
        { <<"i","n","t">>, <<"i","n","t","3","2">>, <<"i","n","t","3","2","s","i","g","n","e","d">>,
          <<"i","n","t","3","2","u">>, <<"i","n","t","3","2","u","n","s","i","g","n","e","d">>,
          <<"i","n","t","4">>, <<"i","n","t","4","s","i","g","n","e","d">>, <<"i","n","t","4","u">>,
          <<"i","n","t","4","u","n","s","i","g","n","e","d">>, <<"i","n","t","e","g","e","r">>,
          <<"i","n","t","e","g","e","r","s","i","g","n","e","d">>, <<"i","n","t","e","g","e","r","u">>,
          <<"i","n","t","e","g","e","r","u","n","s","i","g","n","e","d">>,
          <<"i","n","t","s","i","g","n","e","d">>, <<"i","n","t","u">>,
          <<"i","n","t","u","n","s","i","g","n","e","d">>, <<"s","e","r","i","a","l">>,
          <<"s","e","r","i","a","l","s","i","g","n","e","d">>, <<"s","e","r","i","a","l","u">>,
          <<"s","e","r","i","a","l","u","n","s","i","g","n","e","d">>, <<"s","i","g","n","e","d","i","n","t">>,
          <<"s","i","g","n","e","d","i","n","t","3","2">>, <<"s","i","g","n","e","d","i","n","t","4">>,
          <<"s","i","g","n","e","d","i","n","t","e","g","e","r">>,
          <<"s","i","g","n","e","d","s","e","r","i","a","l">>, <<"u","i","n","t">>,
          <<"u","i","n","t","3","2">>, <<"u","i","n","t","4">>, <<"u","i","n","t","e","g","e","r">>,
          <<"u","n","s","i","g","n","e","d","i","n","t">>,
          <<"u","n","s","i","g","n","e","d","i","n","t","3","2">>,
          <<"u","n","s","i","g","n","e","d","i","n","t","4">>,
          <<"u","n","s","i","g","n","e","d","i","n","t","e","g","e","r">>,
          <<"u","n","s","i","g","n","e","d","s","e","r","i","a","l">>, <<"u","s","e","r","i","a","l">> },
        Name.Int32, Name.UInt32 >>,
    <<
        { <<"b","i","g","i","n","t">>, <<"b","i","g","i","n","t","s","i","g","n","e","d">>,
          <<"b","i","g","i","n","t","u">>, <<"b","i","g","i","n","t","u","n","s","i","g","n","e","d">>,
          <<"b","i","g","s","e","r","i","a","l">>,
          <<"b","i","g","s","e","r","i","a","l","s","i","g","n","e","d">>,
          <<"b","i","g","s","e","r","i","a","l","u">>,
          <<"b","i","g","s","e","r","i","a","l","u","n","s","i","g","n","e","d">>, <<"i","n","t","6","4">>,
          <<"i","n","t","6","4","s","i","g","n","e","d">>, <<"i","n","t","6","4","u">>,
          <<"i","n","t","6","4","u","n","s","i","g","n","e","d">>, <<"i","n","t","8">>,
          <<"i","n","t","8","s","i","g","n","e","d">>, <<"i","n","t","8","u">>,
          <<"i","n","t","8","u","n","s","i","g","n","e","d">>, <<"l","o","n","g">>,
          <<"l","o","n","g","s","i","g","n","e","d">>, <<"l","o","n","g","u">>,
          <<"l","o","n","g","u","n","s","i","g","n","e","d">>,
          <<"s","i","g","n","e","d","b","i","g","i","n","t">>,
          <<"s","i","g","n","e","d","b","i","g","s","e","r","i","a","l">>,
          <<"s","i","g","n","e","d","i","n","t","6","4">>, <<"s","i","g","n","e","d","i","n","t","8">>,
          <<"s","i","g","n","e","d","l","o","n","g">>, <<"u","b","i","g","i","n","t">>,
          <<"u","b","i","g","s","e","r","i","a","l">>, <<"u","i","n","t","6","4">>, <<"u","i","n","t","8">>,
          <<"u","l","o","n","g">>, <<"u","n","s","i","g","n","e","d","b","i","g","i","n","t">>,
          <<"u","n","s","i","g","n","e","d","b","i","g","s","e","r","i","a","l">>,
          <<"u","n","s","i","g","n","e","d","i","n","t","6","4">>,
          <<"u","n","s","i","g","n","e","d","i","n","t","8">>,
          <<"u","n","s","i","g","n","e","d","l","o","n","g">> },
        Name.Int64, Name.UInt64 >>
    >>

\* IsUnsigned without the first-character rule.
IsUnsigned_OnlyWord(t) == Contains(t, Lit.unsigned)

\* unsigned = "unsigned" in t or t[0] == 'u', for a non-empty t.
IsUnsigned(t) == Contains(t, Lit.unsigned) \/ t[1] = "u"

\* unify_type from the line that strips the qualifiers to the fallback.
UnifyStripped(t0) ==
    LET t == StripQualifiers(t0)
    IN  IF t = <<>>
        THEN Raise("IndexError")    \* t[0] of an empty string
        ELSE
        LET unsigned == IsUnsigned(t)
            hits == { k \in 1..Len(CANONICALS) : SearchWord(CANONICALS[k][1], t) }
            first == CHOOSE k \in hits : \A h \in hits : k <= h
        IN  IF hits # {}
            THEN Return(IF unsigned THEN CANONICALS[first][3] ELSE CANONICALS[first][2], "Int")
            ELSE IF SearchFloating(t) THEN Return(Name.Float, "Float")
            ELSE IF SearchWord(ENUM_TYPE, t) THEN Return(Name.Enum, "Enum")
            ELSE IF SearchWord(TEXT_VARYING, t) THEN Return(Name.VARCHAR, "Text")
            ELSE IF SearchWord(TEXT_FIXED, t) THEN Return(Name.CHAR, "Text")
            ELSE IF SearchWord(BOOLEAN_TYPE, t) THEN Return(Name.Boolean, "Boolean")
            ELSE IF SearchWord(DATE_TIME, t) THEN Return(Name.Timestamp, "DateTime")
            ELSE IF SearchWord(BINARY, t) THEN Return(Name.Binary, "Binary")
            ELSE IF SearchWord(JSON_TYPE, t) THEN Return(Name.JSON, "JSON")
            ELSE IF SearchWord(UUID_TYPE, t) THEN Return(Name.UUID, "Int")
            ELSE IF SearchWord(XML_TYPE, t) THEN Return(Name.XML, "XML")
            ELSE Return(Name.Other, "OTHER")

\* The precision/scale branch of unify_type, taken when t names number or decimal.
UnifyNumber(t) ==
    LET m == SearchPrecisionScale(t)
        scale == IF m.scale # <<>> THEN m.scale ELSE <<"0">>
    IN  IF m.matched
        THEN Return(Lit.number \o <<"(">> \o m.precision \o <<",">> \o scale \o <<")">>,
                    IF scale = <<"0">> THEN "Int" ELSE "Float")
        ELSE UnifyStripped(t)

unify_type(raw_type) ==
    IF raw_type = None
    THEN Return(Name.Other, "OTHER")
    ELSE IF strip(lower(raw_type)) = Lit.array
    THEN Return(Name.ARRAY, "ARRAY")
    ELSE
    LET t == lower(strip(raw_type))
    IN  IF t \in {Lit.number, Lit.numeric, Lit.decimal}
        THEN Return(t, "Int")
        ELSE IF Contains(t, Lit.number) \/ Contains(t, Lit.decimal)
        THEN UnifyNumber(t)
        ELSE UnifyStripped(t)

(***************************************************************************)
(* Dialect Normalizer: execution/prepare_sql_for_execution.py              *)
(***************************************************************************)

\* str.replace(old, new): every non-overlapping occurrence, left to right.
RECURSIVE Replace(_, _, _)
Replace(s, old, new) ==
    IF Len(s) < Len(old) THEN s
    ELSE IF OccursAt(s, old, 1)
    THEN new \o Replace(From(s, Len(old) + 1), old, new)
    ELSE <<Head(s)>> \o Replace(Tail(s), old, new)

WordChars == LowerLetters \cup UpperLetters \cup Digits \cup {"_"}

\* limit\s+(\d+)\s*,\s*(\d+) with re.IGNORECASE tried at position i.
MatchLimitAt(t, i) ==
    LET kwEnd  == i + Len(Lit.limit) - 1
        ws1End == RunEnd(t, kwEnd + 1, WhiteSpace)
        d1End  == RunEnd(t, ws1End + 1, Digits)
        ws2End == RunEnd(t, d1End + 1, WhiteSpace)
        ws3End == RunEnd(t, ws2End + 2, WhiteSpace)
        d2End  == RunEnd(t, ws3End + 1, Digits)
    IN  IF /\ kwEnd <= Len(t)
           /\ lower(SubSeq(t, i, kwEnd)) = Lit.limit
           /\ ws1End >= kwEnd + 1
           /\ d1End >= ws1End + 1
           /\ ws2End + 1 <= Len(t)
           /\ t[ws2End + 1] = ","
           /\ d2End >= ws3End + 1
        THEN [matched |-> TRUE, end |-> d2End,
              group1 |-> SubSeq(t, ws1End + 1, d1End),
              group2 |-> SubSeq(t, ws3End + 1, d2End)]
        ELSE [matched |-> FALSE, end |-> 0, group1 |-> <<>>, group2 |-> <<>>]

\* replace_limit with the two numbers left in their places.
replace_limit_Unswapped(match) ==
    Lit.limit \o <<" ">> \o strip(match.group1) \o Lit.offset \o strip(match.group2)

\* replace_limit(match): f'limit {limit} offset {offset}'
replace_limit(match) ==
    LET offset == strip(match.group1)
        limit  == strip(match.group2)
    IN  Lit.limit \o <<" ">> \o limit \o Lit.offset \o offset

\* re.sub(r'limit\s+(\d+)\s*,\s*(\d+)', replace_limit, sql, flags=re.IGNORECASE)
RECURSIVE SubLimit(_)
SubLimit(t) ==
    IF t = <<>> THEN t
    ELSE LET m == MatchLimitAt(t, 1)
         IN  IF m.matched
             THEN replace_limit(m) \o SubLimit(From(t, m.end + 1))
             ELSE <<Head(t)>> \o SubLimit(Tail(t))

\* MatchRandAt without the word boundary before the name.
MatchRandAt_NoBoundary(t, i) ==
    LET kwEnd  == i + Len(Lit.rand) - 1
        ws1End == RunEnd(t, kwEnd + 1, WhiteSpace)
        ws2End == RunEnd(t, ws1End + 2, WhiteSpace)
    IN  IF /\ kwEnd <= Len(t)
           /\ lower(SubSeq(t, i, kwEnd)) = Lit.rand
           /\ ws1End + 1 <= Len(t)
           /\ t[ws1End + 1] = "("
           /\ ws2End + 1 <= Len(t)
           /\ t[ws2End + 1] = ")"
        THEN ws2End + 1
        ELSE 0

\* \brand\s*\(\s*\) with re.IGNORECASE tried at position i of the whole text t:
\* the position of the closing parenthesis, 0 if there is no match.
MatchRandAt(t, i) ==
    LET kwEnd  == i + Len(Lit.rand) - 1
        ws1End == RunEnd(t, kwEnd + 1, WhiteSpace)
        ws2End == RunEnd(t, ws1End + 2, WhiteSpace)
    IN  IF /\ kwEnd <= Len(t)
           /\ IsBoundary(t, i - 1)
           /\ lower(SubSeq(t, i, kwEnd)) = Lit.rand
           /\ ws1End + 1 <= Len(t)
           /\ t[ws1End + 1] = "("
           /\ ws2End + 1 <= Len(t)
           /\ t[ws2End + 1] = ")"
        THEN ws2End + 1
        ELSE 0

\* re.sub(r'\brand\s*\(\s*\)', 'random()', sql, flags=re.IGNORECASE), from position i on.
RECURSIVE SubRandFrom(_, _)
SubRandFrom(t, i) ==
    IF i > Len(t) THEN <<>>
    ELSE IF MatchRandAt(t, i) # 0
    THEN Lit.random_call \o SubRandFrom(t, MatchRandAt(t, i) + 1)
    ELSE <<t[i]>> \o SubRandFrom(t, i + 1)

SubRand(t) == SubRandFrom(t, 1)

\* #\{(\w+)\} tried at position 1: the position of the closing brace, 0 if no match.
MatchHashBrace(t) ==
    LET wEnd == RunEnd(t, 3, WordChars)
    IN  IF /\ Len(t) >= 4
           /\ t[1] = "#"
           /\ t[2] = "{"
           /\ wEnd >= 3
           /\ wEnd + 1 <= Len(t)
           /\ t[wEnd + 1] = "}"
        THEN wEnd + 1
        ELSE 0

\* re.sub(r'#\{(\w+)\}', r':\1', sql)
RECURSIVE SubHashBrace(_)
SubHashBrace(t) ==
    IF t = <<>> THEN t
    ELSE LET e == MatchHashBrace(t)
         IN  IF e # 0
             THEN <<":">> \o SubSeq(t, 3, e - 1) \o SubHashBrace(From(t, e + 1))
             ELSE <<Head(t)>> \o SubHashBrace(Tail(t))

\* \{\s*(\w+)\s*\} tried at position 1.
MatchBrace(t) ==
    LET ws1End == RunEnd(t, 2, WhiteSpace)
        wEnd   == RunEnd(t, ws1End + 1, WordChars)
        ws2End == RunEnd(t, wEnd + 1, WhiteSpace)
    IN  IF /\ Len(t) >= 3
           /\ t[1] = "{"
           /\ wEnd >= ws1End + 1
           /\ ws2End + 1 <= Len(t)
           /\ t[ws2End + 1] = "}"
        THEN [matched |-> TRUE, end |-> ws2End + 1, group1 |-> SubSeq(t, ws1End + 1, wEnd)]
        ELSE [matched |-> FALSE, end |-> 0, group1 |-> <<>>]

\* re.sub(r'\{\s*(\w+)\s*\}', r':\1', sql)
RECURSIVE SubBrace(_)
SubBrace(t) ==
    IF t = <<>> THEN t
    ELSE LET m == MatchBrace(t)
         IN  IF m.matched
             THEN <<":">> \o m.group1 \o SubBrace(From(t, m.end + 1))
             ELSE <<Head(t)>> \o SubBrace(Tail(t))

\* Lines 6-12: the quoting and the spaced comparison operators.
ReplaceOperators(sql) ==
    LET s1 == Replace(sql, <<Backtick>>, <<"\"">>)
        s2 == Replace(s1, <<">", " ", "=">>, <<">", "=">>)
        s3 == Replace(s2, <<"<", " ", "=">>, <<"<", "=">>)
        s4 == Replace(s3, <<"!", " ", "=">>, <<"!", "=">>)
        s5 == Replace(s4, <<"!", " ", "=">>, <<"!", "=">>)
    IN  Replace(s5, <<"=", " ", "=">>, <<"=">>)

\* Lines 29-37: the host-language placeholders.
ReplacePlaceholders(sql) ==
    LET s1 == Replace(sql, <<"%", "s">>, Lit.param_name)
        s2 == Replace(s1, <<"%", "i">>, Lit.param_name)
        s3 == Replace(s2, <<"%", "d">>, Lit.param_name)
    IN  SubBrace(SubHashBrace(s3))

prepare_sql_statically(sql) ==
    ReplacePlaceholders(
        SubRand(SubLimit(Replace(ReplaceOperators(sql), Lit.date_format, Lit.strftime))))
(***************************************************************************)
(* Placeholder Neutralizer and Execution Validator: execution/mock_query.py *)
(***************************************************************************)

\* An unset plan document or error (Python's None in a field that holds a string).
Unset == "None"

\* The expression nodes sqloxide hands to a visitor, as the JSON objects it
\* serializes: key is the node's only key ("Value", "Identifier", ...); for
\* a "Value" node, variant is the value's variant ("Placeholder", "Number",
\* "Null", ...), text its payload, and spanned tells whether the value is
\* wrapped as {"value": ..., "span": ...}.  The unit variant Null is serialized
\* as the string "Null", every other variant as an object {variant: payload}.
ExprNode(key, variant, text, spanned) ==
    [key |-> key, variant |-> variant, text |-> text, spanned |-> spanned]

\* A visitor that turns every value node to null, placeholder or not.
visit_placeholders_AllValues(expr) ==
    IF expr.key = "Value" THEN [expr EXCEPT !.text = "null"] ELSE expr

\* visit_placeholders_turn_null with the two nested tests of lines 54-57 left out
\* for a spanned value: it looks for "Placeholder" in the wrapper, not in the value.
visit_placeholders_NoUnwrap(expr) ==
    IF expr.key = "Value" /\ ~expr.spanned /\ expr.variant = "Placeholder"
    THEN [expr EXCEPT !.text = "null"]
    ELSE expr

visit_placeholders_turn_null(expr) ==
    IF expr.key # "Value"
    THEN expr                                     \* "Value" in expr
    ELSE IF ~expr.spanned /\ expr.variant = "Null"
    THEN expr                                     \* val is the string "Null", no dict
    ELSE IF expr.variant = "Placeholder"          \* "Placeholder" in val
    THEN [expr EXCEPT !.text = "null"]            \* val["Placeholder"] = "null"
    ELSE expr

\* The text sqlparser renders for a node: a value's payload, an identifier's name.
RenderNode(expr) == IF expr.key = "Value" /\ expr.variant = "Null" THEN "NULL" ELSE expr.text

\* One statement rendered: the texts of its nodes in order.
RenderStatement(nodes) == [i \in 1..Len(nodes) |-> RenderNode(nodes[i])]

\* mutate_expressions(parsed_query, func): func applied to every expression node
\* of every statement, then every statement rendered; one text per statement.
mutate_expressions(parsed_query, func(_)) ==
    [k \in 1..Len(parsed_query) |->
        RenderStatement([i \in 1..Len(parsed_query[k]) |-> func(parsed_query[k][i])])]

\* The tokens that stand for a parameter in a rendered statement.
PlaceholderTokens == {"?", ":name", "$1"}

\* The locals of try_to_mock_and_execute_query at its lines 63-71.
MockLocals(sql) ==
    [ sql |-> sql,
      original_successful_query |-> None,
      rewritten_sql |-> None,
      ast |-> <<>>,
      executed_query |-> None,
      result |-> <<>>,
      last_error |-> Unset,
      logical_plan_json |-> Unset,
      logical_plan_optimized |-> Unset,
      physical_plan |-> Unset,
      successful |-> TRUE ]

\* The except clause, lines 98-100.
Caught(locals, e) == [locals EXCEPT !.successful = FALSE, !.last_error = e]

\* A result that reports the normalized text as the executable statement.
MockQueryResult_RewrittenSql(locals) ==
    [ original_query |-> locals.original_successful_query,
      executable_sql |-> locals.rewritten_sql,
      error |-> locals.last_error,
      logical_plan |-> locals.logical_plan_json,
      logical_plan_optimized |-> locals.logical_plan_optimized,
      physical_plan |-> locals.physical_plan,
      successful |-> locals.successful ]

\* MockQueryResult(...), lines 102-106.
MockQueryResult(locals) ==
    [ original_query |-> locals.original_successful_query,
      executable_sql |-> locals.executed_query,
      error |-> locals.last_error,
      logical_plan |-> locals.logical_plan_json,
      logical_plan_optimized |-> locals.logical_plan_optimized,
      physical_plan |-> locals.physical_plan,
      successful |-> locals.successful ]

\* The three rows EXPLAIN (FORMAT json) returns under explain_output = 'all'.
PlanRowNames == <<"logical_plan", "logical_opt", "physical_plan">>

\* con.execute(explain_sql).fetchall() for a statement the sandbox accepts: one
\* row <<name, document is a parseable, non-empty JSON list>> per plan.
ExplainRows(docs) == [i \in 1..Len(docs) |-> <<PlanRowNames[i], docs[i]>>]

\* ReadPlans that never reads the physical plan.
ReadPlans_NoPhysicalPlan(locals) ==
    LET result == locals.result
        l1 == [locals EXCEPT !.logical_plan_json = result[1][1]]
        l2 == [l1 EXCEPT !.logical_plan_optimized = result[2][1]]
    IN  IF Len(result) < 3 THEN Caught(locals, "IndexError")
        ELSE IF ~result[1][2] THEN Caught(locals, "JSONDecodeError")
        ELSE IF ~result[2][2] THEN Caught(l1, "JSONDecodeError")
        ELSE l2

\* Lines 90-95: the three rows are read, then each document is parsed and
\* assigned in turn; a raise leaves the earlier assignments in place.
ReadPlans(locals) ==
    LET result == locals.result
        l1 == [locals EXCEPT !.logical_plan_json = result[1][1]]
        l2 == [l1 EXCEPT !.logical_plan_optimized = result[2][1]]
    IN  IF Len(result) < 3 THEN Caught(locals, "IndexError")
        ELSE IF ~result[1][2] THEN Caught(locals, "JSONDecodeError")
        ELSE IF ~result[2][2] THEN Caught(l1, "JSONDecodeError")
        ELSE IF ~result[3][2] THEN Caught(l2, "JSONDecodeError")
        ELSE [l2 EXCEPT !.physical_plan = result[3][1]]

\* The optimizer passes the explain wrapper disables, lines 74-78.
DisabledOptimizers == {"empty_result_pullup", "statistics_propagation", "filter_pushdown"}

\* A wrapper that adds the three passes to the ones already disabled.
explain_wrapper_NoReset(sb) ==
    [sb EXCEPT !.explain_output = "all",
               !.disabled_optimizers = @ \cup DisabledOptimizers]

\* The settings of explain_wrapper, lines 74-77, in their order: the explain
\* output, the disabled optimizers emptied, then set to the three passes.
explain_wrapper(sb) ==
    LET output == [sb EXCEPT !.explain_output = "all"]
        emptied == [output EXCEPT !.disabled_optimizers = {}]
    IN  [emptied EXCEPT !.disabled_optimizers = DisabledOptimizers]

(***************************************************************************)
(* Schema Synthesizer: execute_queries.py                                  *)
(***************************************************************************)

\* quote_name(column_name), lines 117-125.
quote_name(column_name) ==
    LET c == Replace(Replace(column_name, <<Backtick>>, <<"\"">>), <<"'">>, <<"\"">>)
    IN  IF ~(StartsWith(c, <<"\"">>) /\ EndsWith(c, <<"\"">>))
        THEN <<"\"">> \o c \o <<"\"">>
        ELSE c

\* prepare_sql_for_duckdb(sql), lines 20-42.
prepare_sql_for_duckdb(sql) ==
    LET s1 == Replace(sql, <<Backtick>>, <<"\"">>)
        s2 == Replace(s1, <<">", " ", "=">>, <<">", "=">>)
        s3 == Replace(s2, <<"<", " ", "=">>, <<"<", "=">>)
        s4 == Replace(s3, <<"!", " ", "=">>, <<"!", "=">>)
    IN  SubRand(SubLimit(Replace(s4, Lit.date_format, Lit.strftime)))

\* base_type_to_duckdb_type that tests for "Array" where unify_type returns "ARRAY".
base_type_to_duckdb_type_ArrayCase(base_type) ==
    CASE base_type = "Int" -> "INTEGER"
      [] base_type = "Float" -> "DOUBLE"
      [] base_type = "Text" -> "VARCHAR"
      [] base_type = "Boolean" -> "BOOLEAN"
      [] base_type = "DateTime" -> "TIMESTAMP"
      [] base_type = "Binary" -> "BLOB"
      [] base_type = "JSON" -> "JSON"
      [] base_type = "UUID" -> "UUID"
      [] base_type = "XML" -> "XML"
      [] base_type = "Enum" -> "VARCHAR"
      [] base_type = "Array" -> "ARRAY"
      [] OTHER -> "OTHER"

\* base_type_to_duckdb_type(base_type), tools/sql_types.py.
base_type_to_duckdb_type(base_type) ==
    CASE base_type = "Int" -> "INTEGER"
      [] base_type = "Float" -> "DOUBLE"
      [] base_type = "Text" -> "VARCHAR"
      [] base_type = "Boolean" -> "BOOLEAN"
      [] base_type = "DateTime" -> "TIMESTAMP"
      [] base_type = "Binary" -> "BLOB"
      [] base_type = "JSON" -> "JSON"
      [] base_type = "UUID" -> "UUID"
      [] base_type = "XML" -> "XML"
      [] base_type = "Enum" -> "VARCHAR"
      [] base_type = "ARRAY" -> "ARRAY"
      [] OTHER -> "OTHER"

\* The results of base_type_to_duckdb_type that name a type of the sandbox
\* engine; a column of any other type makes the CREATE TABLE fail.
SandboxTypes == {"INTEGER", "DOUBLE", "VARCHAR", "BOOLEAN", "TIMESTAMP", "BLOB", "JSON", "UUID"}

\* The position of the first '.' of table_name, 0 when there is none (line 128).
DotPosition(table_name) ==
    IF \E i \in 1..Len(table_name) : table_name[i] = "."
    THEN CHOOSE i \in 1..Len(table_name) :
             /\ table_name[i] = "."
             /\ \A j \in 1..(i - 1) : table_name[j] # "."
    ELSE 0

\* schema_name of table_name.split('.', 1), line 130.
SchemaName(table_name) == SubSeq(table_name, 1, DotPosition(table_name) - 1)

\* complete_quoted_table_name, lines 128-136.
CompleteQuotedTableName(table_name) ==
    IF DotPosition(table_name) > 0
    THEN quote_name(SchemaName(table_name)) \o <<".">>
             \o quote_name(From(table_name, DotPosition(table_name) + 1))
    ELSE quote_name(table_name)

\* The sandbox engine's reading of a double-quoted, possibly schema-qualified
\* name: the sequence of its parts, <<>> for a text that is not such a name.
QualifiedNameParts(t) ==
    IF Len(t) < 3 \/ t[1] # "\"" THEN <<>>
    ELSE LET e == CHOOSE j \in 2..(Len(t) + 1) :
                      /\ j = Len(t) + 1 \/ t[j] = "\""
                      /\ \A k \in 2..(j - 1) : t[k] # "\""
             rest == From(t, e + 2)
         IN  IF e = 2 \/ e > Len(t) THEN <<>>
             ELSE IF e = Len(t) THEN <<SubSeq(t, 2, e - 1)>>
             ELSE IF /\ t[e + 1] = "."
                     /\ Len(rest) >= 3
                     /\ rest[1] = "\""
                     /\ rest[Len(rest)] = "\""
                     /\ \A k \in 2..(Len(rest) - 1) : rest[k] # "\""
                  THEN <<SubSeq(t, 2, e - 1), SubSeq(rest, 2, Len(rest) - 1)>>
                  ELSE <<>>

\* A sandbox connection: duckdb.connect() gives an empty in-memory database.
\* A table is [name, columns, rows]; names are kept as the engine compares
\* them, in lower case.  ran holds the candidate statements handed to the
\* connection: the text, and whether it came inside the explain wrapper.
EmptySandbox ==
    [ open |-> TRUE, macros |-> {}, schemas |-> {}, tables |-> {},
      explain_output |-> "physical_only", disabled_optimizers |-> {}, ran |-> {} ]

ClosedSandbox == [EmptySandbox EXCEPT !.open = FALSE]

\* The names of the tables of a sandbox.
TableNames(sb) == { t.name : t \in sb.tables }

\* Does the sandbox accept CREATE SCHEMA IF NOT EXISTS <quoted>? (line 133)
SandboxAcceptsSchema(quoted) == Len(QualifiedNameParts(quoted)) = 1

\* The sandbox after CREATE SCHEMA IF NOT EXISTS <quoted>.
CreateSchema(sb, quoted) == [sb EXCEPT !.schemas = @ \cup {lower(quoted)}]

\* The CREATE TABLE statement of lines 139-145: the table and the columns it
\* names, each identifier as prepare_sql_for_duckdb leaves it.  No rewrite of
\* prepare_sql_for_duckdb matches across a double quote, so rewriting the
\* identifiers is rewriting the statement.
CreateTableStatement(complete_quoted_table_name, columns) ==
    [ table |-> prepare_sql_for_duckdb(complete_quoted_table_name),
      columns |-> [j \in 1..Len(columns) |->
                      [name |-> prepare_sql_for_duckdb(quote_name(columns[j].column_name)),
                       type |-> base_type_to_duckdb_type(columns[j].column_base_type)]] ]

\* Does the sandbox accept the CREATE TABLE IF NOT EXISTS statement? (line 146)
SandboxAcceptsTable(sb, stmt) ==
    LET parts == QualifiedNameParts(stmt.table)
    IN  /\ parts # <<>>
        /\ Len(parts) = 2 => lower(<<"\"">> \o parts[1] \o <<"\"">>) \in sb.schemas
        /\ \A j \in 1..Len(stmt.columns) :
              /\ Len(QualifiedNameParts(stmt.columns[j].name)) = 1
              /\ stmt.columns[j].type \in SandboxTypes
        /\ \A j, k \in 1..Len(stmt.columns) :
              j # k => lower(stmt.columns[j].name) # lower(stmt.columns[k].name)

\* The sandbox after an accepted CREATE TABLE IF NOT EXISTS: a new, empty table,
\* or no change when a table of that name exists.
CreateTableIfNotExists(sb, stmt) ==
    IF lower(stmt.table) \in TableNames(sb) THEN sb
    ELSE [sb EXCEPT !.tables = @ \cup {[name |-> lower(stmt.table),
                                         columns |-> stmt.columns,
                                         rows |-> <<>>]}]

\* Table(table_id, complete_quoted_table_name, [Column(...)]), lines 147-149.
Table(table_id, table_name, columns) ==
    [ table_id |-> table_id, table_name |-> table_name,
      columns |-> [j \in 1..Len(columns) |->
                      [column_id |-> columns[j].id,
                       column_name |-> columns[j].column_name,
                       column_base_type |-> columns[j].column_base_type]] ]

\* A row of error_df, lines 158-166 and 202-210.
ErrorRow(error_type, repo, query_id, table_name, error_message, sql) ==
    [ error_type |-> error_type, repo_id |-> repo.id, repo_url |-> repo.url,
      query_id |-> query_id, table_name |-> table_name,
      error_message |-> error_message, sql |-> sql ]

\* sql_statement before its first assignment in create_tables.
Unbound == [unbound |-> TRUE]

\* The locals of create_tables after lines 101-113.
CreateTablesLocals(tables_with_columns) ==
    [ tables_with_columns |-> tables_with_columns, table_idx |-> 0,
      tables |-> <<>>, sql_statement |-> Unbound ]

\* The locals of execute_queries after lines 178-186.
ExecuteQueriesLocals(queries) ==
    [ queries |-> queries, query_idx |-> 0, n_sucessful |-> 0, n_failed |-> 0 ]

\* Does the sandbox run the statement as execute_queries hands it over, without
\* parameters? (line 191)
SandboxExecutes(sb, query) ==
    /\ ~query.parse_error
    /\ ~query.placeholders
    /\ query.table \in TableNames(sb)

\* An except branch that leaves the loop over the queries.
QueryFailed_Break(locals) ==
    [locals EXCEPT !.n_failed = @ + 1, !.query_idx = Len(locals.queries)]

\* Lines 211-212: the failure is counted and the loop continues.
QueryFailed(locals) ==
    [locals EXCEPT !.n_failed = @ + 1, !.query_idx = @ + 1]

\* The repository the SELECT of lines 222-230 is restricted to.
DebugRepoId == 6044

(***************************************************************************)
(* String Extractor: extract_strings.py                                    *)
(* The parser is a library; what the extractor sees is the tree it        *)
(* returns.  A node is a record of its type, its text and its children.    *)
(***************************************************************************)

StringNodeTypes ==
    { "string_literal", "interpreted_string_literal", "string", "template_string",
      "raw_string_literal", "verbatim_string_literal", "interpolated_string_expression" }

ContentTypes ==
    { "string_fragment", "multiline_string_fragment", "string_content", "raw_string_content",
      "raw_string_literal_content", "interpreted_string_literal_content",
      "string_literal_content" }

is_string_literal(node) == node.type \in StringNodeTypes

\* The content child when there is one; the empty string for a pair of
\* quotes; the middle child of three; the inner children joined otherwise.
\* The two C# branches that slice the source text are left to the node's
\* text: the trees of StatementShapes hold no such node.
get_string_content(node) ==
    LET content == SelectSeq(node.children, LAMBDA c : c.type \in ContentTypes)
        RECURSIVE inner(_)
        inner(i) == IF i >= Len(node.children) THEN <<>>
                    ELSE node.children[i].text \o inner(i + 1)
    IN  IF node.type \in {"verbatim_string_literal", "interpolated_string_expression"}
        THEN node.text
        ELSE IF content # <<>> THEN content[1].text
        ELSE IF Len(node.children) = 2 THEN <<>>
        ELSE IF Len(node.children) = 3 THEN node.children[2].text
        ELSE inner(2)

RECURSIVE extract_joined_string(_)
extract_joined_string(node) ==
    IF is_string_literal(node) THEN <<get_string_content(node)>>
    ELSE IF node.type = "binary_expression"
    THEN IF \A i \in 1..Len(node.children) : node.children[i].type # "+"
         THEN <<>>
         ELSE extract_joined_string(node.children[1])
                  \o extract_joined_string(node.children[3])
    ELSE <<>>

\* visit of extract_all_strings, as the list it appends to collected;
\* parent_type is Unset at the root, where visit is called without a parent.
RECURSIVE visit(_, _)
visit(node, parent_type) ==
    LET joined == IF node.type = "binary_expression"
                  THEN extract_joined_string(node) ELSE <<>>
        RECURSIVE join(_)
        join(parts) == IF parts = <<>> THEN <<>> ELSE Head(parts) \o join(Tail(parts))
        own == IF /\ node.type # "binary_expression"
                  /\ is_string_literal(node)
                  /\ parent_type # "binary_expression"
               THEN <<get_string_content(node)>> ELSE <<>>
        RECURSIVE below(_)
        below(i) == IF i > Len(node.children) THEN <<>>
                    ELSE visit(node.children[i], node.type) \o below(i + 1)
    IN  IF joined # <<>> THEN <<join(joined)>> ELSE own \o below(1)

extract_all_strings(root_node) == visit(root_node, Unset)

\* list(OrderedDict.fromkeys(result)): a key keeps the place of its first
\* insertion.
RECURSIVE fromkeys(_)
fromkeys(result) ==
    IF result = <<>> THEN <<>>
    ELSE LET before == fromkeys(SubSeq(result, 1, Len(result) - 1))
             last == result[Len(result)]
         IN  IF \E i \in 1..Len(before) : before[i] = last
             THEN before ELSE Append(before, last)

\* What parser.parse returns for a file of the given statements.
parse(src) == [type |-> "program", text |-> <<>>, children |-> src]

extract_strings_NoDedupe(src, dedupe) == extract_all_strings(parse(src))

\* extract_strings for a language that has an extractor: the language
\* extractors all parse and call extract_all_strings.
extract_strings(src, dedupe) ==
    LET result == extract_all_strings(parse(src))
    IN  IF dedupe THEN fromkeys(result) ELSE result

(***************************************************************************)
(* Inputs of the string extractor: files of a few statements, each one of  *)
(* the shapes below.                                                       *)
(***************************************************************************)

MaxStatements == 3

StatementShapes ==
    LET Leaf(type, text) == [type |-> type, text |-> text, children |-> <<>>]
        Quote == Leaf("\"", <<"\"">>)
        Str(c) == [ type |-> "string", text |-> <<"\"">> \o c \o <<"\"">>,
                    children |-> IF c = <<>> THEN <<Quote, Quote>>
                                 ELSE <<Quote, Leaf("string_fragment", c), Quote>> ]
        Bin(left, op, right) ==
            [ type |-> "binary_expression", text |-> left.text \o <<op>> \o right.text,
              children |-> <<left, Leaf(op, <<op>>), right>> ]
        Wrap(type, node) == [type |-> type, text |-> node.text, children |-> <<node>>]
        x == Leaf("identifier", <<"x">>)
    IN  { Wrap("expression_statement", Str(<<"a">>)),
          Wrap("expression_statement", Str(<<"b">>)),
          Wrap("expression_statement", Str(<<"a", "b">>)),
          Wrap("expression_statement", Str(<<>>)),
          Wrap("expression_statement", Bin(Str(<<"a">>), "+", Str(<<"b">>))),
          Wrap("expression_statement", Bin(x, "+", Wrap("arguments", Str(<<"b">>)))),
          Wrap("expression_statement", Bin(x, "==", Str(<<"a">>))) }

SourceFiles == UNION { [1..n -> StatementShapes] : n \in 0..MaxStatements }

(***************************************************************************)
(* Loaders of the tables relation: load_schemapile_json_to_ddb.py and      *)
(* get_schemas_from_create_query.py.  A row of the relation is kept with   *)
(* its id, its repository and its clean name; a schemapile file declares   *)
(* one table, and the columns of a table are left out.                     *)
(***************************************************************************)

\* get_id(TABLE_TABLE_NAME): table_id_counter is incremented and returned.
get_id(table_id_counter) == table_id_counter + 1

\* Most schemapile files, and most CREATE queries of the queries relation.
MaxFiles == 3

MaxCreateQueries == 2

\* The schemapile files, each with its repository and the table it declares,
\* and the CREATE queries, each with its repository, the table it names and
\* whether parse_create_table parses it.
LoaderInputs ==
    LET repos == {"repo_a", "repo_b"}
        files == UNION { [1..n -> [repo : repos, table : {"t", "s"}]] : n \in 0..MaxFiles }
        queries == UNION { [1..n -> [repo : repos, table : {"t", "n"}, parses : {TRUE}]
                                    \cup {[repo |-> "repo_a", table |-> "n", parses |-> FALSE]}] :
                               n \in 0..MaxCreateQueries }
    IN  [files : files, queries : queries]

(***************************************************************************)
(* Input spellings of the type unifier                                     *)
(***************************************************************************)

BaseSpellings ==
    { <<>>, <<"f","o","o">>, <<"t","i","n","y","i","n","t">>, <<"i","n","t","1">>, <<"b","i","t">>,
      <<"i","n","t","8">>, <<"s","m","a","l","l","i","n","t">>,
      <<"m","e","d","i","u","m","i","n","t">>, <<"i","n","t">>, <<"i","n","t","e","g","e","r">>,
      <<"b","i","g","i","n","t">>, <<"l","o","n","g">>, <<"f","l","o","a","t">>,
      <<"d","o","u","b","l","e"," ","p","r","e","c","i","s","i","o","n">>, <<"n","u","m","b","e","r">>,
      <<"n","u","m","e","r","i","c">>, <<"d","e","c","i","m","a","l">>, <<"e","n","u","m">>,
      <<"v","a","r","c","h","a","r">>, <<"c","h","a","r">>, <<"b","o","o","l","e","a","n">>,
      <<"t","i","m","e","s","t","a","m","p">>, <<"b","l","o","b">>, <<"j","s","o","n">>,
      <<"u","u","i","d">>, <<"x","m","l">>, <<"a","r","r","a","y">> }

Int8Spellings ==
    { <<"t","i","n","y","i","n","t">>, <<"i","n","t","1">>, <<"b","i","t">> }

AffixWords ==
    { <<"s","i","g","n","e","d">>, <<"u","n","s","i","g","n","e","d">>, <<"u">> }


(***************************************************************************)
(* Inputs of the type unifier                                              *)
(***************************************************************************)

\* Most whitespace characters put on each side of a raw type.
MaxPad == 1

\* Most digits of a number inside a parenthesized qualifier.
MaxQualLen == 2

\* Digit strings of 1..MaxQualLen digits over {0, 2}.
QualNumbers == UNION { [1..n -> {"0", "2"}] : n \in 1..MaxQualLen }

\* Qualifiers written with a space after the comma, before it, and before
\* the parenthesis.
SpacedQualifiers ==
    { <<"(", "1", ",", " ", "0", ")">>, <<"(", "1", " ", ",", "2", ")">>,
      <<" ", "(", "1", ",", "0", ")">> }

\* No qualifier, (n), (1,n), and the spaced ones.
Qualifiers ==
    {<<>>}
    \cup { <<"(">> \o n \o <<")">> : n \in QualNumbers }
    \cup { <<"(", "1", ",">> \o n \o <<")">> : n \in QualNumbers }
    \cup SpacedQualifiers

\* A signed/unsigned/u word put before or after the base, glued or after a space.
Affixes ==
    {[pre |-> <<>>, suf |-> <<>>]}
    \cup { [pre |-> w \o g, suf |-> <<>>] : w \in AffixWords, g \in {<<>>, <<" ">>} }
    \cup { [pre |-> <<>>, suf |-> g \o w] : w \in AffixWords, g \in {<<>>, <<" ">>} }

LetterCases == {"lower", "upper", "capitalized"}

Cased(s, c) ==
    CASE c = "lower" -> s
      [] c = "upper" -> upper(s)
      [] c = "capitalized" -> IF s = <<>> THEN s ELSE upper(<<Head(s)>>) \o Tail(s)

Padding(n) == [i \in 1..n |-> " "]

\* prefix + base + qualifier + suffix, in a letter case, padded on both sides.
Spelling(base, affix, qual, c, pad) ==
    Padding(pad) \o Cased(affix.pre \o base \o qual \o affix.suf, c) \o Padding(pad)

\* The qualifiers a spelling with a signed/unsigned/u word is given.
AffixQualifiers == { <<>>, <<"(", "2", ")">> }

\* Every base with every qualifier, and every base with every affix.
RawTypeInputs ==
    {None}
    \cup { Spelling(b, [pre |-> <<>>, suf |-> <<>>], q, c, p) :
             b \in BaseSpellings, q \in Qualifiers,
             c \in LetterCases, p \in 0..MaxPad }
    \cup { Spelling(b, a, q, c, p) :
             b \in BaseSpellings, a \in Affixes, q \in AffixQualifiers,
             c \in LetterCases, p \in 0..MaxPad }

(***************************************************************************)
(* Inputs of the dialect normalizer                                        *)
(***************************************************************************)

\* Most tokens of a free-form statement fragment.
MaxTokens == 2

\* Most whitespace characters of one whitespace run inside a clause.
MaxWs == 1

\* s1 \o s2 \o ... for a sequence of texts.
RECURSIVE Concat(_)
Concat(ss) == IF ss = <<>> THEN <<>> ELSE Head(ss) \o Concat(Tail(ss))

\* The pieces the rewrite rules look for, and pieces of them.
SqlTokens ==
    { <<Backtick>>, <<"=">>, <<" ">>, <<" ", "=">>, <<">", " ", "=">>, <<"<", " ", "=">>,
      <<"!", " ", "=">>, <<"=", " ", "=">>, <<"!">>, <<"{">>, <<"}">>, <<"#">>, <<"x">>,
      <<"%", "s">>, <<"%", "i">>, <<"%", "d">>, <<"%">>, <<"1">>, <<",">>,
      Lit.date_format, Lit.limit, Lit.rand, <<"(", ")">> }

\* Free-form fragments: up to MaxTokens tokens in a row.
TokenTexts == { Concat(ts) : ts \in UNION { [1..n -> SqlTokens] : n \in 0..MaxTokens } }

\* A run of n copies of the whitespace character w.
WsRun(w, n) == [i \in 1..n |-> w]

LimitNumbers == { <<"1", "0">>, <<"5">>, <<"0">> }

\* keyword, whitespace, offset, optional whitespace, comma, optional whitespace, count
LimitClause(kw, w, n1, offset, n2, n3, count) ==
    kw \o WsRun(w, n1) \o offset \o WsRun(w, n2) \o <<",">> \o WsRun(w, n3) \o count

\* name, optional whitespace, "(", optional whitespace, ")"
RandCall(kw, w, n1, n2) == kw \o WsRun(w, n1) \o <<"(">> \o WsRun(w, n2) \o <<")">>

\* Text before and after a clause.
ContextsBefore == { <<>>, <<"x", " ">>, <<"b">>, <<"_">> }

ContextsAfter == { <<>>, <<" ", "x">>, <<"_", "i", "d">> }

LimitClauses ==
    { LimitClause(Cased(Lit.limit, c), w, n1, offset, n2, n3, count) :
        c \in LetterCases, w \in {" ", "\t"}, n1 \in 1..MaxWs, offset \in LimitNumbers,
        n2 \in 0..MaxWs, n3 \in 0..MaxWs, count \in LimitNumbers }

RandCalls ==
    { RandCall(Cased(Lit.rand, c), w, n1, n2) :
        c \in LetterCases, w \in {" ", "\t"}, n1 \in 0..MaxWs, n2 \in 0..MaxWs }

\* Identifiers that hold the letters rand without being a call.
RandIdentifiers ==
    { before \o Cased(Lit.rand, c) \o after :
        before \in ContextsBefore, c \in LetterCases, after \in ContextsAfter }

SqlInputs ==
    TokenTexts
    \cup RandIdentifiers
    \cup { before \o clause \o after :
             before \in ContextsBefore, clause \in LimitClauses \cup RandCalls,
             after \in ContextsAfter }

(***************************************************************************)
(* Inputs of the execution validator                                       *)
(***************************************************************************)

\* Most expression nodes of a parsed statement.
MaxNodes == 3

\* The expression nodes a statement is made of, for a sqloxide that wraps
\* values in a span (spanned) or not.
NodeKinds(spanned) ==
    { ExprNode("Identifier", "", "name", FALSE),
      ExprNode("Value", "Number", "1", spanned),
      ExprNode("Value", "Null", "NULL", spanned),
      ExprNode("Value", "Placeholder", "?", spanned),
      ExprNode("Value", "Placeholder", ":name", spanned) }

\* The expression nodes of one parsed statement, in visiting order.
ParsedStatements ==
    UNION { [1..n -> NodeKinds(spanned)] : n \in 0..MaxNodes, spanned \in BOOLEAN }

\* A second statement in the same text.
SecondStatement == <<ExprNode("Value", "Placeholder", "?", FALSE)>>

\* "users" as create_tables names it in the sandbox, and a table that is not there.
UsersTable == quote_name(<<"u", "s", "e", "r", "s">>)

MissingTable == quote_name(<<"n", "o", "n", "e">>)

\* What the sandbox returns for an accepted EXPLAIN: three parseable documents,
\* one unparseable document among three, or fewer rows than three.
PlanDocOutcomes ==
    { <<TRUE, TRUE, TRUE>>, <<FALSE, TRUE, TRUE>>, <<TRUE, FALSE, TRUE>>,
      <<TRUE, TRUE, FALSE>>, <<TRUE, TRUE>> }

StatementTexts ==
    { <<"x", " ", "=", " ", "?">>, <<Backtick, "x", Backtick, " ", "=", " ", "=", " ", "%", "s">> }

\* What the connection has disabled when the validator is called: nothing,
\* or a setting of its own.
PriorOptimizerSettings ==
    { {}, {"join_order", "filter_pushdown"} }

\* A statement handed to the validator: its text, and what the parser and the
\* sandbox answer for it: parse_sql raises (parse_error) or returns the list
\* parsed; the statement reads table; the sandbox returns docs for its EXPLAIN;
\* the connection comes with the optimizers of prior disabled.
StatementInputs ==
    { [text |-> t, parse_error |-> TRUE, parsed |-> <<>>, table |-> <<>>, docs |-> <<>>, prior |-> p] :
        t \in StatementTexts, p \in PriorOptimizerSettings }
    \cup { [text |-> t, parse_error |-> FALSE, parsed |-> <<>>, table |-> <<>>, docs |-> <<>>, prior |-> p] :
        t \in StatementTexts, p \in PriorOptimizerSettings }
    \cup { [text |-> t, parse_error |-> FALSE, parsed |-> <<st>> \o more, table |-> MissingTable,
            docs |-> <<>>, prior |-> p] :
        t \in StatementTexts, p \in PriorOptimizerSettings, st \in ParsedStatements, more \in {<<>>, <<SecondStatement>>} }
    \cup { [text |-> t, parse_error |-> FALSE, parsed |-> <<st>> \o more, table |-> UsersTable,
            docs |-> d, prior |-> p] :
        t \in StatementTexts, p \in PriorOptimizerSettings, st \in ParsedStatements, more \in {<<>>, <<SecondStatement>>},
        d \in PlanDocOutcomes }

(***************************************************************************)
(* Inputs of the orchestrator: the rows of the main database               *)
(***************************************************************************)

\* Most tables and most SELECT statements of a repository.
MaxTables == 2

MaxQueries == 2

\* An inferred table: its name and its columns <<column_name, column_base_type>>;
\* a table whose columns could not be stored has none.
TableKinds ==
    { [table_name |-> <<"u", "s", "e", "r", "s">>, columns |-> << <<<<"i", "d">>, "Int">>, <<<<"n", "a", "m", "e">>, "Text">> >>],
      [table_name |-> <<Backtick, "u", "s", "e", "r", "s", Backtick>>, columns |-> << <<<<"i", "d">>, "Int">> >>],
      [table_name |-> <<"a", "p", "p", ".", "u", "s", "e", "r", "s">>, columns |-> << <<<<"i", "d">>, "Int">> >>],
      [table_name |-> <<"e", "v", "e", "n", "t", "s">>, columns |-> << <<<<"i", "d">>, "Int">>, <<<<"n", "a", "m", "e">>, "OTHER">> >>],
      [table_name |-> <<Backtick, "a", ".", "b", Backtick>>, columns |-> << <<<<"i", "d">>, "Int">> >>],
      [table_name |-> <<"l", "o", "g", "s">>, columns |-> << <<None, "Int">> >>],
      [table_name |-> <<"n", "o", "t", "e", "s">>, columns |-> <<>>] }

\* The row of tables_with_columns for the i-th table of a repository.
TableRow(i, kind) ==
    [ table_id |-> i, table_name |-> kind.table_name,
      columns |-> [j \in 1..Len(kind.columns) |->
                      [id |-> 10 * i + j,
                       column_name |-> kind.columns[j][1],
                       column_base_type |-> kind.columns[j][2]]] ]

\* A SELECT statement of a repository and what the sandbox engine makes of it:
\* it does not parse, it has parameters, it reads table.
QueryKinds ==
    { [sql |-> <<"x", " ", ">", " ", "=", " ", "1">>, parse_error |-> FALSE, placeholders |-> FALSE, table |-> UsersTable],
      [sql |-> <<"y">>, parse_error |-> FALSE, placeholders |-> FALSE, table |-> MissingTable],
      [sql |-> <<"(">>, parse_error |-> TRUE, placeholders |-> FALSE, table |-> <<>>],
      [sql |-> <<"x", " ", "=", " ", "?">>, parse_error |-> FALSE, placeholders |-> TRUE, table |-> UsersTable] }

\* The row of queries for the i-th SELECT statement of a repository.
QueryRow(i, kind) ==
    [ id |-> i, sql |-> kind.sql, parse_error |-> kind.parse_error,
      placeholders |-> kind.placeholders, table |-> kind.table ]

\* The repositories of the main database: the one the run is restricted to, with
\* its tables and SELECT statements, and possibly another one with a statement.
Databases ==
    { [ tables |-> [i \in 1..Len(ts) |-> TableRow(i, ts[i])],
        queries |-> [i \in 1..Len(qs) |-> QueryRow(i, qs[i])],
        other_repo |-> o ] :
        ts \in UNION { [1..n -> TableKinds] : n \in 0..MaxTables },
        qs \in UNION { [1..n -> QueryKinds] : n \in 0..MaxQueries },
        o \in BOOLEAN }

\* The result of the SELECT of lines 222-230: the repositories with at least one
\* SELECT statement, restricted to repo_id = 6044.
SelectRepos(database) ==
    LET rows == (IF database.other_repo
                 THEN <<[id |-> DebugRepoId + 1, url |-> "other", cnt |-> 1]>>
                 ELSE <<>>)
                \o (IF Len(database.queries) > 0
                    THEN <<[id |-> DebugRepoId, url |-> "repo", cnt |-> Len(database.queries)]>>
                    ELSE <<>>)
        IsDebugRepo(r) == r.id = DebugRepoId
    IN  SelectSeq(rows, IsDebugRepo)

\* The rows of tables_with_columns (lines 101-111) and of queries (lines
\* 178-183) for repo_id.
\* The other repository declares users too, with another column.
OtherRepoTables ==
    <<TableRow(MaxTables + 1,
               [table_name |-> <<"u", "s", "e", "r", "s">>,
                columns |-> << <<<<"e", "m", "a", "i", "l">>, "Text">> >>])>>

\* A SELECT without the WHERE tables.repo_id = ? of line 109.
TablesOf_AllRepos(database, repo_id) ==
    SelectSeq(database.tables, LAMBDA row : row.columns # <<>>)
        \o (IF database.other_repo THEN OtherRepoTables ELSE <<>>)

TablesOf(database, repo_id) ==
    IF repo_id = DebugRepoId
    THEN SelectSeq(database.tables, LAMBDA row : row.columns # <<>>)  \* JOIN columns
    ELSE IF database.other_repo THEN OtherRepoTables
    ELSE <<>>

QueriesOf(database, repo_id) ==
    IF repo_id = DebugRepoId THEN database.queries
    ELSE <<QueryRow(Len(database.queries) + 1, CHOOSE k \in QueryKinds : k.sql = <<"x", " ", ">", " ", "=", " ", "1">>)>>

(***************************************************************************)
(* State                                                                   *)
(***************************************************************************)

VARIABLES
    raw_type,       \* unify_type: the argument
    unified,        \* unify_type: the returned pair or the raised exception
    unify_pc,       \* unify_type: "ready", "returned" or "raised"
    sql_in,         \* prepare_sql_statically: the statement text handed in
    sql_once,       \* its result
    sql_twice,      \* the result of normalizing that result again
    norm_pc,        \* "ready", "once" or "twice"
    statement,      \* try_to_mock_and_execute_query: the statement handed in
    mock,           \* its locals
    mock_pc,        \* the stage it has reached
    mock_result,    \* the MockQueryResult it returned
    sandbox,        \* the sandbox connection of the repository pass
    db,             \* the main database: the rows the run reads
    executable_queries, \* the executable_queries table of the main database
    pc,             \* iterate_through_repos: where the run is
    iter,           \* the locals of iterate_through_repos
    ct,             \* the locals of create_tables
    eq,             \* the locals of execute_queries
    glob,           \* the module globals: error_df and the table counters
    raised,         \* the exception that ended the run, None when there is none
    source,         \* extract_strings: the statements of the file handed in
    got,            \* the list each of the test's four calls returned
    data,           \* the loaders: the schemapile files and the CREATE queries
    load,           \* the loaders: table_id_counter and the locals
    tables_relation \* the rows of the tables relation of the main database

unifyVars == <<raw_type, unified, unify_pc>>

normVars == <<sql_in, sql_once, sql_twice, norm_pc>>

mockVars == <<statement, mock, mock_pc, mock_result>>

runVars == <<db, executable_queries, pc, iter, ct, eq, glob, raised>>

vars ==
    <<raw_type, unified, unify_pc, sql_in, sql_once, sql_twice, norm_pc,
      statement, mock, mock_pc, mock_result, sandbox,
      db, executable_queries, pc, iter, ct, eq, glob, raised, source, got,
      data, load, tables_relation>>

extractVars == <<source, got>>

loadVars == <<data, load, tables_relation>>

\* The module global table_id_counter (line 20) and the locals of
\* get_schemas_from_create_query; idx counts the files, then the queries.
LoaderLocals(pc_) ==
    [ pc |-> pc_, idx |-> 0, table_id_counter |-> 0, n_tables_currently |-> 0,
      create_queries |-> <<>>, n_new_tables |-> 0, n_erros |-> 0 ]

LoadIdle ==
    /\ data = [files |-> <<>>, queries |-> <<>>]
    /\ load = LoaderLocals("idle")
    /\ tables_relation = <<>>

\* The four calls of test_extract_strings, named by their dedupe flag and
\* by whether the file holds the snippet twice.
Calls == BOOLEAN \X BOOLEAN

NotCalled == [called |-> FALSE, strings |-> <<>>]

ExtractIdle ==
    /\ source = <<>>
    /\ got = [call \in Calls |-> NotCalled]

UnifyIdle ==
    /\ raw_type = None
    /\ unified = Return(<<>>, "")
    /\ unify_pc = "idle"

NormIdle ==
    /\ sql_in = <<>>
    /\ sql_once = <<>>
    /\ sql_twice = <<>>
    /\ norm_pc = "idle"

NoStatement ==
    [ text |-> <<>>, parse_error |-> FALSE, parsed |-> <<>>, table |-> <<>>, docs |-> <<>>,
      prior |-> {} ]

\* The module globals of execute_queries.py after import, lines 15-18.
Globals ==
    [ error_df |-> <<>>, n_failed_table_creations |-> 0,
      n_successful_table_creations |-> 0, csv |-> None ]

RunIdle ==
    /\ db = [tables |-> <<>>, queries |-> <<>>, other_repo |-> FALSE]
    /\ executable_queries = <<>>
    /\ pc = "idle"
    /\ iter = [repos |-> <<>>, repo_idx |-> 0, n_sucessful |-> 0, n_failed |-> 0]
    /\ ct = CreateTablesLocals(<<>>)
    /\ eq = ExecuteQueriesLocals(<<>>)
    /\ glob = Globals
    /\ raised = None

MockIdle ==
    /\ statement = NoStatement
    /\ mock = MockLocals(<<>>)
    /\ mock_pc = "idle"
    /\ mock_result = MockQueryResult(MockLocals(<<>>))

(***************************************************************************)
(* Specification of the type unifier: one call on every input              *)
(***************************************************************************)

InitUnify ==
    /\ raw_type \in RawTypeInputs
    /\ unified = Return(<<>>, "")
    /\ unify_pc = "ready"
    /\ NormIdle
    /\ ExtractIdle
    /\ LoadIdle
    /\ MockIdle
    /\ RunIdle
    /\ sandbox = ClosedSandbox

CallUnifyType ==
    /\ unify_pc = "ready"
    /\ unified' = unify_type(raw_type)
    /\ unify_pc' = IF unified'.raised THEN "raised" ELSE "returned"
    /\ UNCHANGED <<extractVars, loadVars, raw_type, normVars, mockVars, sandbox, runVars>>

NextUnify == CallUnifyType

SpecUnify == InitUnify /\ [][NextUnify]_vars

(***************************************************************************)
(* Claims about the type unifier                                           *)
(***************************************************************************)

\* C1: unify_type is total: for every input (None, the empty string,
\* whitespace-only text, a bare qualifier such as "(10)", nonsense text) it
\* returns a (canonical_name, category) pair and never raises.
C1_UnifyTypeNeverRaises == unify_pc # "raised"

\* The spellings of an 8-bit integer type: tinyint, int1 or bit with an optional
\* size and an optional signed/unsigned/u word, with what the claim expects of
\* each: unsigned exactly when the lower-case text without its qualifier
\* contains "unsigned" or begins with u.
Int8Cases ==
    { [text |-> Spelling(b, a, q, c, p),
       unsigned |-> \/ Contains(a.pre \o b \o a.suf, Lit.unsigned)
                    \/ Head(a.pre \o b \o a.suf) = "u"] :
        b \in Int8Spellings, a \in Affixes, q \in Qualifiers,
        c \in LetterCases, p \in 0..MaxPad }

\* C9: for every spelling of an 8-bit integer type (tinyint, int1, bit, in any
\* letter case, with an optional size and an optional signed/unsigned word or u
\* prefix/suffix) unify_type returns category Int, and the name UInt8 exactly
\* when the lower-cased, qualifier-stripped text contains "unsigned" or begins
\* with u, and Int8 otherwise.
C9_EightBitSpellings ==
    \A u \in BOOLEAN :
        (unify_pc # "ready" /\ [text |-> raw_type, unsigned |-> u] \in Int8Cases)
            => /\ unify_pc = "returned"
               /\ unified.category = "Int"
               /\ unified.name = IF u THEN Name.UInt8 ELSE Name.Int8

\* " TINYINT(2) UNSIGNED " was unified to (UInt8, Int), and "bitu" to (Int8, Int).
C9_Witness ==
    /\ unify_pc = "returned"
    /\ raw_type = <<" ", "T", "I", "N", "Y", "I", "N", "T", "(", "2", ")", " ",
                    "U", "N", "S", "I", "G", "N", "E", "D", " ">>
    /\ unified = Return(Name.UInt8, "Int")

\* The sandbox type the claim names for each category.
SandboxTypeOf ==
    [ Int |-> "INTEGER", Float |-> "DOUBLE", Text |-> "VARCHAR", Boolean |-> "BOOLEAN",
      DateTime |-> "TIMESTAMP", Binary |-> "BLOB", JSON |-> "JSON", UUID |-> "UUID",
      XML |-> "XML", Enum |-> "VARCHAR", ARRAY |-> "ARRAY" ]

\* C15: base_type_to_duckdb_type maps each category to its sandbox type and
\* every other value (also None) to the fallback OTHER; and the category that
\* unify_type returns for a column is, unless it is OTHER itself, mapped to its
\* own sandbox type and not to the fallback.
C15_CategoryToSandboxType ==
    /\ \A c \in DOMAIN SandboxTypeOf : base_type_to_duckdb_type(c) = SandboxTypeOf[c]
    /\ \A c \in {"OTHER", "Array", "int", "", Unset} : base_type_to_duckdb_type(c) = "OTHER"
    /\ unify_pc = "returned"
          => /\ unified.category \in DOMAIN SandboxTypeOf \cup {"OTHER"}
             /\ unified.category # "OTHER"
                   => base_type_to_duckdb_type(unified.category)
                          = SandboxTypeOf[unified.category]

\* "Array" was unified to category ARRAY, which is mapped to ARRAY.
C15_Witness ==
    /\ unify_pc = "returned"
    /\ raw_type = <<"A", "r", "r", "a", "y">>
    /\ unified.category = "ARRAY"
    /\ base_type_to_duckdb_type(unified.category) = "ARRAY"

\* The family the claim names for a base spelling: the canonical names it
\* allows and the category.  number, numeric, decimal and array are left to
\* the rules that come before the families.
FamilyOf(base) ==
    LET Ints(signed, unsigned) == [names |-> {signed, unsigned}, category |-> "Int"]
        One(name, category) == [names |-> {name}, category |-> category]
    IN  CASE base \in {<<"t","i","n","y","i","n","t">>, <<"i","n","t","1">>, <<"b","i","t">>,
                       <<"i","n","t","8">>} -> Ints(Name.Int8, Name.UInt8)
          [] base = <<"s","m","a","l","l","i","n","t">> -> Ints(Name.Int16, Name.UInt16)
          [] base = <<"m","e","d","i","u","m","i","n","t">> -> Ints(Name.Int24, Name.UInt24)
          [] base \in {<<"i","n","t">>, <<"i","n","t","e","g","e","r">>}
                -> Ints(Name.Int32, Name.UInt32)
          [] base \in {<<"b","i","g","i","n","t">>, <<"l","o","n","g">>}
                -> Ints(Name.Int64, Name.UInt64)
          [] base \in {<<"f","l","o","a","t">>,
                       <<"d","o","u","b","l","e"," ","p","r","e","c","i","s","i","o","n">>}
                -> One(Name.Float, "Float")
          [] base = <<"e","n","u","m">> -> One(Name.Enum, "Enum")
          [] base = <<"v","a","r","c","h","a","r">> -> One(Name.VARCHAR, "Text")
          [] base = <<"c","h","a","r">> -> One(Name.CHAR, "Text")
          [] base = <<"b","o","o","l","e","a","n">> -> One(Name.Boolean, "Boolean")
          [] base = <<"t","i","m","e","s","t","a","m","p">> -> One(Name.Timestamp, "DateTime")
          [] base = <<"b","l","o","b">> -> One(Name.Binary, "Binary")
          [] base = <<"j","s","o","n">> -> One(Name.JSON, "JSON")
          [] base = <<"u","u","i","d">> -> One(Name.UUID, "Int")
          [] base = <<"x","m","l">> -> One(Name.XML, "XML")
          [] base \in {<<>>, <<"f","o","o">>} -> One(Name.Other, "OTHER")

\* The spellings the families decide: a base with an optional qualifier and
\* an optional signed/unsigned/u word set off by a space.
FamilyCases ==
    { [text |-> Spelling(b, a, q, c, p), family |-> FamilyOf(b)] :
        b \in BaseSpellings \ {Lit.number, Lit.numeric, Lit.decimal, Lit.array},
        a \in { x \in Affixes : /\ x.pre = <<>> \/ x.pre[Len(x.pre)] = " "
                                /\ x.suf = <<>> \/ x.suf[1] = " " },
        q \in Qualifiers, c \in LetterCases, p \in 0..MaxPad }

\* C23: unify_type returns the result of the first family that matches the
\* lower-cased, qualifier-stripped text: the integer widths 8, 16, 24, 32, 64
\* (IntN or UIntN, Int), then Float, Enum, VARCHAR, CHAR, Boolean, Timestamp,
\* Binary, JSON, (UUID, Int), XML, and (OTHER, OTHER) for a text that matches
\* none and for null.
C23_FirstFamilyWins ==
    unify_pc # "ready" =>
        /\ raw_type = None => unified = Return(Name.Other, "OTHER")
        /\ \A case \in FamilyCases :
              case.text = raw_type =>
                  /\ unify_pc = "returned"
                  /\ unified.name \in case.family.names
                  /\ unified.category = case.family.category

\* number and decimal with a qualifier, in its spellings, with the precision
\* and the scale it declares (scale <<>> when there is none).
NumberCases ==
    LET Declared(q, precision, scale) == [qual |-> q, precision |-> precision, scale |-> scale]
        quals ==
            { Declared(<<"(">> \o n \o <<")">>, n, <<>>) : n \in QualNumbers }
                \cup { Declared(<<"(", "1", ",">> \o n \o <<")">>, <<"1">>, n) :
                           n \in QualNumbers }
                \cup { Declared(<<"(", "1", ",", " ", "0", ")">>, <<"1">>, <<"0">>),
                       Declared(<<"(", "1", " ", ",", "2", ")">>, <<"1">>, <<"2">>),
                       Declared(<<" ", "(", "1", ",", "0", ")">>, <<"1">>, <<"0">>) }
    IN  { [ text |-> Spelling(b, [pre |-> <<>>, suf |-> <<>>], q.qual, c, p),
            base |-> b, precision |-> q.precision, scale |-> q.scale ] :
            b \in {Lit.number, Lit.decimal}, q \in quals,
            c \in LetterCases, p \in 0..MaxPad }

\* C24: number or decimal with a (precision[,scale]) qualifier, in every
\* spelling of the qualifier, is unified to category Int when the scale is
\* absent or zero and to Float otherwise, under the name
\* name(precision,scale); number, numeric or decimal without a qualifier is
\* unified to category Int.
C24_PrecisionScale ==
    unify_pc # "ready" =>
        /\ \A case \in NumberCases :
              case.text = raw_type =>
                  LET zero == \A i \in 1..Len(case.scale) : case.scale[i] = "0"
                      scale == IF case.scale = <<>> THEN <<"0">> ELSE case.scale
                      form(name) == name \o <<"(">> \o case.precision
                                         \o <<",">> \o scale \o <<")">>
                  IN  /\ unify_pc = "returned"
                      /\ unified.category = IF zero THEN "Int" ELSE "Float"
                      /\ unified.name \in {form(case.base), form(Lit.number)}
        /\ \A b \in {Lit.number, Lit.numeric, Lit.decimal}, c \in LetterCases, p \in 0..MaxPad :
              raw_type = Spelling(b, [pre |-> <<>>, suf |-> <<>>], <<>>, c, p) =>
                  /\ unify_pc = "returned"
                  /\ unified.category = "Int"

\* The same raw type in the other letter cases and with the whitespace the
\* claim names: upper case and capitalized, a space before it, a tab after it,
\* and the upper-case text after a line feed and before a space.
CaseAndPaddingVariants(s) ==
    { upper(s), Cased(s, "capitalized"), <<" ">> \o s, s \o <<"\t">>,
      <<"\n">> \o upper(s) \o <<" ">> }

\* C30: unify_type depends only on the lower-cased, whitespace-trimmed raw
\* type: for every input that is not None, a call on the same text in another
\* letter case, or with whitespace added before or after it, has the outcome
\* of the call on the text itself, which is the outcome of a call on the
\* lower-cased, trimmed text; and a second call on the same input has the
\* outcome of the first.
C30_DependsOnLowerTrimmed ==
    (unify_pc # "ready" /\ raw_type # None)
        => /\ \A v \in CaseAndPaddingVariants(raw_type) : unify_type(v) = unified
           /\ unify_type(lower(strip(raw_type))) = unified
           /\ unify_type(raw_type) = unified

\* " Decimal(1,2) " was unified to (number(1,2), Float), as "decimal(1,2)" is.
C30_Witness ==
    /\ unify_pc = "returned"
    /\ raw_type = <<" ", "D", "e", "c", "i", "m", "a", "l", "(", "1", ",", "2", ")", " ">>
    /\ unified = Return(Lit.number \o <<"(", "1", ",", "2", ")">>, "Float")
    /\ unified = unify_type(<<"d", "e", "c", "i", "m", "a", "l", "(", "1", ",", "2", ")">>)

(***************************************************************************)
(* Specification of the execution validator: one call of                   *)
(* try_to_mock_and_execute_query against a sandbox that holds              *)
(* users(id, name), one stage per step.                                    *)
(***************************************************************************)

UsersSandbox ==
    [EmptySandbox EXCEPT
        !.tables = {[name |-> UsersTable,
                     columns |-> <<[name |-> quote_name(<<"i", "d">>), type |-> "INTEGER"],
                                   [name |-> quote_name(<<"n", "a", "m", "e">>),
                                    type |-> "VARCHAR"]>>,
                     rows |-> <<>>]}]

InitValidator ==
    /\ statement \in StatementInputs
    /\ mock = MockLocals(statement.text)
    /\ mock_pc = "received"
    /\ mock_result = MockQueryResult(MockLocals(<<>>))
    /\ sandbox = [UsersSandbox EXCEPT !.disabled_optimizers = statement.prior]
    /\ UnifyIdle
    /\ NormIdle
    /\ ExtractIdle
    /\ LoadIdle
    /\ RunIdle

\* Lines 81-82.
V_Normalize ==
    /\ mock_pc = "received"
    /\ mock' = [mock EXCEPT !.original_successful_query = mock.sql,
                            !.rewritten_sql = prepare_sql_statically(mock.sql)]
    /\ mock_pc' = "normalized"
    /\ UNCHANGED <<extractVars, loadVars, statement, mock_result, sandbox, unifyVars, normVars, runVars>>

\* Line 83: parse_sql raises, or returns the list of parsed statements.
V_Parse ==
    /\ mock_pc = "normalized"
    /\ IF statement.parse_error
       THEN /\ mock' = Caught(mock, "ValueError")
            /\ mock_pc' = "caught"
       ELSE /\ mock' = [mock EXCEPT !.ast = statement.parsed]
            /\ mock_pc' = "parsed"
    /\ UNCHANGED <<extractVars, loadVars, statement, mock_result, sandbox, unifyVars, normVars, runVars>>

\* Lines 84-85: the first of the rendered statements; [0] of an empty list raises.
V_Neutralize ==
    /\ mock_pc = "parsed"
    /\ LET nulled == mutate_expressions(mock.ast, visit_placeholders_turn_null)
       IN  IF nulled = <<>>
           THEN /\ mock' = Caught(mock, "IndexError")
                /\ mock_pc' = "caught"
           ELSE /\ mock' = [mock EXCEPT !.executed_query = nulled[1]]
                /\ mock_pc' = "neutralized"
    /\ UNCHANGED <<extractVars, loadVars, statement, mock_result, sandbox, unifyVars, normVars, runVars>>

\* Lines 87-88: the wrapper sets the explain output and the disabled optimizers,
\* then the EXPLAIN is run; it raises when the statement names a missing table.
V_Explain ==
    /\ mock_pc = "neutralized"
    /\ sandbox' = [explain_wrapper(sandbox) EXCEPT
                       !.ran = @ \cup {[sql |-> mock.executed_query, explain |-> TRUE]}]
    /\ IF statement.table \in TableNames(sandbox)
       THEN /\ mock' = [mock EXCEPT !.result = ExplainRows(statement.docs)]
            /\ mock_pc' = "explained"
       ELSE /\ mock' = Caught(mock, "CatalogException")
            /\ mock_pc' = "caught"
    /\ UNCHANGED <<extractVars, loadVars, statement, mock_result, unifyVars, normVars, runVars>>

\* Lines 90-95.
V_ReadPlans ==
    /\ mock_pc = "explained"
    /\ mock' = ReadPlans(mock)
    /\ mock_pc' = IF mock'.successful THEN "plans_read" ELSE "caught"
    /\ UNCHANGED <<extractVars, loadVars, statement, mock_result, sandbox, unifyVars, normVars, runVars>>

\* Lines 102-106.
V_Return ==
    /\ mock_pc \in {"plans_read", "caught"}
    /\ mock_result' = MockQueryResult(mock)
    /\ mock_pc' = "returned"
    /\ UNCHANGED <<extractVars, loadVars, statement, mock, sandbox, unifyVars, normVars, runVars>>

NextValidator ==
    \/ V_Normalize
    \/ V_Parse
    \/ V_Neutralize
    \/ V_Explain
    \/ V_ReadPlans
    \/ V_Return

SpecValidator == InitValidator /\ [][NextValidator]_vars

(***************************************************************************)
(* Claims about the placeholder neutralizer and the execution validator    *)
(***************************************************************************)

\* The positions of the parameter placeholders of the first parsed statement.
PlaceholderPositions ==
    { i \in 1..Len(statement.parsed[1]) :
        /\ statement.parsed[1][i].key = "Value"
        /\ statement.parsed[1][i].variant = "Placeholder" }

\* C4: for a parsed statement with N >= 0 parameter placeholders, neutralization
\* yields exactly one rewritten statement, as long as the parsed one, in which
\* every placeholder has been replaced by null and no placeholder token remains.
C4_OneStatementNoPlaceholders ==
    (mock_pc \in {"neutralized", "explained", "plans_read"})
        => /\ Len(mock.executed_query) = Len(statement.parsed[1])
           /\ \A i \in 1..Len(mock.executed_query) :
                 mock.executed_query[i] \notin PlaceholderTokens
           /\ \A i \in PlaceholderPositions : mock.executed_query[i] = "null"

\* A statement with two span-wrapped placeholders (? and :name) was neutralized.
C4_Witness ==
    /\ mock_pc = "neutralized"
    /\ statement.parsed = << <<ExprNode("Identifier", "", "name", FALSE),
                               ExprNode("Value", "Placeholder", "?", TRUE),
                               ExprNode("Value", "Placeholder", ":name", TRUE)>> >>
    /\ mock.executed_query = <<"name", "null", "null">>

\* C7: for a statement that parses and whose table exists in the sandbox (and
\* for which the sandbox returns its three plan documents), the validator
\* returns Success: original_sql set, the three plans present, no error, and
\* null at each placeholder position of executable_sql.
C7_SuccessCarriesPlans ==
    ( /\ mock_pc = "returned"
      /\ ~statement.parse_error
      /\ statement.parsed # <<>>
      /\ statement.table \in TableNames(sandbox)
      /\ statement.docs = <<TRUE, TRUE, TRUE>> )
        => /\ mock_result.successful
           /\ mock_result.original_query = statement.text
           /\ mock_result.logical_plan = "logical_plan"
           /\ mock_result.logical_plan_optimized = "logical_opt"
           /\ mock_result.physical_plan = "physical_plan"
           /\ mock_result.error = Unset
           /\ Len(mock_result.executable_sql) = Len(statement.parsed[1])
           /\ \A i \in PlaceholderPositions : mock_result.executable_sql[i] = "null"

\* users(id, name) with `name ?`: Success, with null where the placeholder was.
C7_Witness ==
    /\ mock_pc = "returned"
    /\ statement.table = UsersTable
    /\ statement.parsed = << <<ExprNode("Identifier", "", "name", FALSE),
                               ExprNode("Value", "Placeholder", "?", FALSE)>> >>
    /\ mock_result.successful
    /\ mock_result.executable_sql = <<"name", "null">>
    /\ mock_result.physical_plan = "physical_plan"

\* C8: every Failure result carries an error and no plan document, also when the
\* failure happens while reading or parsing one of the three plan documents;
\* and a result is successful exactly when its error is absent.
C8_FailureCarriesNoPlans ==
    mock_pc = "returned"
        => /\ mock_result.successful <=> mock_result.error = Unset
           /\ ~mock_result.successful
                => /\ mock_result.logical_plan = Unset
                   /\ mock_result.logical_plan_optimized = Unset
                   /\ mock_result.physical_plan = Unset

\* The stage after each stage of Received -> Normalized -> Parsed ->
\* Neutralized -> Explained -> {Success | Failure}; "caught" is the failure
\* and "plans_read" the success that "returned" hands back.
StageEdges ==
    { <<"received", "normalized">>, <<"normalized", "parsed">>,
      <<"parsed", "neutralized">>, <<"neutralized", "explained">>,
      <<"explained", "plans_read">>, <<"plans_read", "returned">>,
      <<"caught", "returned">> }
        \cup { <<stage, "caught">> :
                   stage \in {"normalized", "parsed", "neutralized", "explained"} }

\* What the returned result says about the stage that failed.
TerminalResult ==
    /\ mock_result.successful <=> mock_result.error = Unset
    /\ mock_result.successful <=> mock.result # <<>> /\ mock.last_error = Unset
    /\ statement.parse_error =>
          /\ ~mock_result.successful
          /\ mock_result.executable_sql = None
          /\ sandbox.ran = {}
    /\ (~mock_result.successful /\ mock.executed_query # None) =>
          /\ mock_result.executable_sql = mock.executed_query
          /\ Len(mock_result.executable_sql) = Len(statement.parsed[1])
          /\ \A i \in 1..Len(mock_result.executable_sql) :
                mock_result.executable_sql[i] \notin PlaceholderTokens
          /\ sandbox.ran = {[sql |-> mock_result.executable_sql, explain |-> TRUE]}

\* C19: the validator passes through the stages in order and each at most
\* once; a failure goes straight to the return, with no EXPLAIN run after it;
\* one result is returned and nothing happens after it; the result of a parse
\* failure has executable_sql unset, and a failure after neutralization
\* carries the neutralized statement, the one the EXPLAIN was run on.
C19_OnePassStateMachine ==
    [][ /\ <<mock_pc, mock_pc'>> \in StageEdges
        /\ mock_pc = "caught" => sandbox' = sandbox /\ mock' = mock
        /\ mock_pc' = "caught" /\ mock_pc # "neutralized" => sandbox' = sandbox
        /\ mock_pc' = "returned" => TerminalResult' ]_vars

\* A statement on a missing table has failed at the EXPLAIN and the result
\* carries its neutralized text.
C19_Witness ==
    /\ mock_pc = "returned"
    /\ ~mock_result.successful
    /\ mock_result.error = "CatalogException"
    /\ statement.parsed = << <<ExprNode("Identifier", "", "name", FALSE),
                               ExprNode("Value", "Placeholder", "?", FALSE)>> >>
    /\ mock_result.executable_sql = <<"name", "null">>

\* C22: when the EXPLAIN of a statement is run, the sandbox has the three
\* passes empty_result_pullup, statistics_propagation and filter_pushdown
\* disabled and no other, whatever the connection had disabled before.
C22_ThreeOptimizersDisabled ==
    [][ sandbox'.ran # sandbox.ran =>
            /\ sandbox'.disabled_optimizers =
                   {"empty_result_pullup", "statistics_propagation", "filter_pushdown"}
            /\ sandbox'.explain_output = "all" ]_vars

\* An EXPLAIN has been run on a connection that had another pass disabled.
C22_Witness ==
    /\ mock_pc = "explained"
    /\ sandbox.ran # {}
    /\ sandbox.disabled_optimizers = DisabledOptimizers
    /\ statement.prior = {"join_order", "filter_pushdown"}

\* C27: neutralization changes placeholder nodes only: a node that is not a
\* placeholder comes back as it was, a placeholder comes back as the same
\* node with the value null, the statement keeps its nodes in number and
\* order, and a second application changes nothing.
C27_OnlyPlaceholdersChange ==
    mock.executed_query # None =>
        /\ \A k \in 1..Len(statement.parsed) :
              \A i \in 1..Len(statement.parsed[k]) :
                  LET node == statement.parsed[k][i]
                      after == visit_placeholders_turn_null(node)
                  IN  /\ after = IF node.key = "Value" /\ node.variant = "Placeholder"
                                 THEN [node EXCEPT !.text = "null"] ELSE node
                      /\ visit_placeholders_turn_null(after) = after
        /\ Len(mock.executed_query) = Len(statement.parsed[1])
        /\ \A i \in 1..Len(mock.executed_query) :
              LET node == statement.parsed[1][i]
              IN  mock.executed_query[i] =
                      IF node.key = "Value" /\ node.variant = "Placeholder"
                      THEN "null" ELSE RenderNode(node)

\* A statement with a number, a placeholder in a span and an identifier has
\* been neutralized.
C27_Witness ==
    /\ mock_pc = "neutralized"
    /\ statement.parsed = << <<ExprNode("Value", "Number", "1", TRUE),
                               ExprNode("Value", "Placeholder", ":name", TRUE),
                               ExprNode("Identifier", "", "name", FALSE)>> >>
    /\ mock.executed_query = <<"1", "null", "name">>

(***************************************************************************)
(* Specification of the orchestrator: iterate_through_repos of             *)
(* execute_queries.py, one loop iteration per step.                        *)
(***************************************************************************)

Init ==
    /\ db \in Databases
    /\ executable_queries = <<>>
    /\ pc = "start"
    /\ iter = [repos |-> <<>>, repo_idx |-> 0, n_sucessful |-> 0, n_failed |-> 0]
    /\ ct = CreateTablesLocals(<<>>)
    /\ eq = ExecuteQueriesLocals(<<>>)
    /\ glob = Globals
    /\ raised = None
    /\ sandbox = ClosedSandbox
    /\ UnifyIdle
    /\ NormIdle
    /\ ExtractIdle
    /\ LoadIdle
    /\ MockIdle

\* The repository of the current loop iteration.
Repo == iter.repos[iter.repo_idx + 1]

\* Lines 220-241: the repositories are selected and executable_queries is
\* created anew.
Start ==
    /\ pc = "start"
    /\ iter' = [iter EXCEPT !.repos = SelectRepos(db)]
    /\ executable_queries' = <<>>
    /\ pc' = "repos"
    /\ UNCHANGED <<extractVars, loadVars, db, ct, eq, glob, raised, sandbox, unifyVars, normVars, mockVars>>

\* Line 246: a fresh sandbox for the next repository.
OpenSandbox ==
    /\ pc = "repos"
    /\ iter.repo_idx < Len(iter.repos)
    /\ sandbox' = EmptySandbox
    /\ pc' = "macros"
    /\ UNCHANGED <<extractVars, loadVars, db, executable_queries, iter, ct, eq, glob, raised,
                   unifyVars, normVars, mockVars>>

\* A pass that goes on to the tables without installing a macro.
InstallMacros_Skipped ==
    /\ pc = "macros"
    /\ pc' = "fetch_tables"
    /\ UNCHANGED <<extractVars, loadVars, db, executable_queries, iter, ct, eq, glob, raised,
                   sandbox, unifyVars, normVars, mockVars>>

\* Lines 249-250: the macros of EXTRA_FUNCTIONS.
InstallMacros ==
    /\ pc = "macros"
    /\ sandbox' = [sandbox EXCEPT !.macros = {"add_days", "add_months", "add_years"}]
    /\ pc' = "fetch_tables"
    /\ UNCHANGED <<extractVars, loadVars, db, executable_queries, iter, ct, eq, glob, raised,
                   unifyVars, normVars, mockVars>>

\* Lines 101-113.
FetchTables ==
    /\ pc = "fetch_tables"
    /\ ct' = CreateTablesLocals(TablesOf(db, Repo.id))
    /\ pc' = "tables"
    /\ UNCHANGED <<extractVars, loadVars, db, executable_queries, iter, eq, glob, raised, sandbox,
                   unifyVars, normVars, mockVars>>

\* Lines 115-170, one table: the schema is created outside the try (line 133);
\* inside it the statement is built (a column without a name raises before
\* sql_statement is assigned) and executed; the except branch reads
\* sql_statement (line 155), which is unbound when no statement was built yet.
CreateTable ==
    /\ pc = "tables"
    /\ ct.table_idx < Len(ct.tables_with_columns)
    /\ LET row == ct.tables_with_columns[ct.table_idx + 1]
           qualified == DotPosition(row.table_name) > 0
           schema == quote_name(SchemaName(row.table_name))
           complete_quoted_table_name == CompleteQuotedTableName(row.table_name)
           sb == IF qualified THEN CreateSchema(sandbox, schema) ELSE sandbox
           built == \A j \in 1..Len(row.columns) : row.columns[j].column_name # None
           sql_statement == IF built
                            THEN CreateTableStatement(complete_quoted_table_name, row.columns)
                            ELSE ct.sql_statement
           failed(e) ==
               /\ glob' = [glob EXCEPT
                             !.error_df = Append(@, ErrorRow("table_creation", Repo, None,
                                                    complete_quoted_table_name, e, sql_statement)),
                             !.n_failed_table_creations = @ + 1]
               /\ ct' = [ct EXCEPT !.table_idx = @ + 1, !.sql_statement = sql_statement]
               /\ UNCHANGED <<pc, raised>>
       IN  IF qualified /\ ~SandboxAcceptsSchema(schema)
           THEN /\ raised' = [in |-> "create_tables", line |-> 133, exception |-> "ParserException"]
                /\ pc' = "raised"
                /\ UNCHANGED <<sandbox, ct, glob>>
           ELSE /\ sandbox' = IF built /\ SandboxAcceptsTable(sb, sql_statement)
                              THEN CreateTableIfNotExists(sb, sql_statement)
                              ELSE sb
                /\ IF ~built /\ ct.sql_statement = Unbound
                   THEN /\ raised' = [in |-> "create_tables", line |-> 155,
                                      exception |-> "UnboundLocalError"]
                        /\ pc' = "raised"
                        /\ UNCHANGED <<ct, glob>>
                   ELSE IF ~built THEN failed("AttributeError")
                   ELSE IF ~SandboxAcceptsTable(sb, sql_statement) THEN failed("duckdb.Error")
                   ELSE /\ ct' = [ct EXCEPT
                                    !.table_idx = @ + 1,
                                    !.sql_statement = sql_statement,
                                    !.tables = Append(@, Table(row.table_id,
                                                   complete_quoted_table_name, row.columns))]
                        /\ glob' = [glob EXCEPT !.n_successful_table_creations = @ + 1]
                        /\ UNCHANGED <<pc, raised>>
    /\ UNCHANGED <<extractVars, loadVars, db, executable_queries, iter, eq, unifyVars, normVars, mockVars>>

\* Lines 172-173 and 178-186: create_tables returns, the statements are read.
FetchQueries ==
    /\ pc = "tables"
    /\ ct.table_idx = Len(ct.tables_with_columns)
    /\ eq' = ExecuteQueriesLocals(QueriesOf(db, Repo.id))
    /\ pc' = "queries"
    /\ UNCHANGED <<extractVars, loadVars, db, executable_queries, iter, ct, glob, raised, sandbox,
                   unifyVars, normVars, mockVars>>

\* Lines 188-212, one statement.
ExecuteQuery ==
    /\ pc = "queries"
    /\ eq.query_idx < Len(eq.queries)
    /\ LET query == eq.queries[eq.query_idx + 1]
           sql_prepared == prepare_sql_for_duckdb(query.sql)
           executable_id == iter.n_sucessful + eq.n_sucessful + 1
       IN  IF SandboxExecutes(sandbox, query)
           THEN /\ executable_queries' =
                       Append(executable_queries, [id |-> executable_id, query_id |-> query.id])
                /\ eq' = [eq EXCEPT !.n_sucessful = @ + 1, !.query_idx = @ + 1]
                /\ UNCHANGED glob
           ELSE /\ glob' = [glob EXCEPT
                              !.error_df = Append(@, ErrorRow("query_execution", Repo, query.id,
                                                     None, "duckdb.Error", sql_prepared))]
                /\ eq' = QueryFailed(eq)
                /\ UNCHANGED executable_queries
           \* line 191: the prepared text itself is executed
    /\ sandbox' = [sandbox EXCEPT !.ran = @ \cup {[sql |-> prepare_sql_for_duckdb(
                                                       eq.queries[eq.query_idx + 1].sql),
                                                   explain |-> FALSE]}]
    /\ UNCHANGED <<extractVars, loadVars, db, pc, iter, ct, raised, unifyVars, normVars, mockVars>>

\* Lines 214 and 253-258: execute_queries returns, the totals are updated and
\* the sandbox is closed.
CloseSandbox ==
    /\ pc = "queries"
    /\ eq.query_idx = Len(eq.queries)
    /\ iter' = [iter EXCEPT !.n_sucessful = @ + eq.n_sucessful,
                            !.n_failed = @ + eq.n_failed,
                            !.repo_idx = @ + 1]
    /\ sandbox' = ClosedSandbox
    /\ pc' = "repos"
    /\ UNCHANGED <<extractVars, loadVars, db, executable_queries, ct, eq, glob, raised,
                   unifyVars, normVars, mockVars>>

\* Lines 263-271: the error log is written when there is an error.
SaveErrors ==
    /\ pc = "repos"
    /\ iter.repo_idx = Len(iter.repos)
    /\ glob' = [glob EXCEPT !.csv = IF glob.error_df # <<>> THEN glob.error_df ELSE None]
    /\ pc' = "done"
    /\ UNCHANGED <<extractVars, loadVars, db, executable_queries, iter, ct, eq, raised, sandbox,
                   unifyVars, normVars, mockVars>>

Next ==
    \/ Start
    \/ OpenSandbox
    \/ InstallMacros
    \/ FetchTables
    \/ CreateTable
    \/ FetchQueries
    \/ ExecuteQuery
    \/ CloseSandbox
    \/ SaveErrors

Spec == Init /\ [][Next]_vars

(***************************************************************************)
(* Claims about the orchestrator                                           *)
(***************************************************************************)

\* The table of the sandbox that a Table object names.
SandboxTable(table) ==
    { t \in sandbox.tables : t.name = lower(prepare_sql_for_duckdb(table.table_name)) }

\* C3: every table that create_tables reports as materialized holds exactly two
\* seed rows in the sandbox of the pass, so COUNT(*) on it is 2.
C3_TwoSeedRows ==
    (pc \in {"tables", "queries"})
        => \A i \in 1..Len(ct.tables) :
              /\ SandboxTable(ct.tables[i]) # {}
              /\ \A t \in SandboxTable(ct.tables[i]) : Len(t.rows) = 2

\* C5: a failure while synthesizing one table (creating its schema, building or
\* executing its statement) removes only that table: the run goes on to the
\* sibling tables and to the statements of the repository, it is never ended
\* by an exception out of create_tables.
C5_TableFailureLocal ==
    /\ pc # "raised"
    /\ raised = None
    /\ pc = "queries" => ct.table_idx = Len(ct.tables_with_columns)

\* The rows of executable_queries and of error_df that record the statement
\* query_id.
Outcomes(query_id) ==
    Len(SelectSeq(executable_queries, LAMBDA r : r.query_id = query_id))
    + Len(SelectSeq(glob.error_df,
                    LAMBDA r : r.error_type = "query_execution" /\ r.query_id = query_id))

\* C6: a failure while validating one statement becomes a failure record for
\* that statement only: when execute_queries has returned, every statement of
\* the repository has exactly one outcome, a row of executable_queries or a
\* query_execution record, the counters add up, and the pass went on to close
\* the sandbox without an exception.
C6_StatementFailureLocal ==
    (pc \in {"repos", "done"} /\ iter.repo_idx > 0)
        => /\ eq.query_idx = Len(eq.queries)
           /\ eq.n_sucessful + eq.n_failed = Len(eq.queries)
           /\ \A i \in 1..Len(eq.queries) : Outcomes(eq.queries[i].id) = 1
           /\ raised = None
           /\ ~sandbox.open

\* The first statement of the repository failed, the second one ran, and the
\* run came to its end.
C6_Witness ==
    /\ pc = "done"
    /\ Len(eq.queries) = 2
    /\ \E r \in 1..Len(glob.error_df) :
          /\ glob.error_df[r].error_type = "query_execution"
          /\ glob.error_df[r].query_id = eq.queries[1].id
    /\ executable_queries = <<[id |-> 1, query_id |-> eq.queries[2].id]>>

\* The query_execution rows of error_df, in emission order.
FailureStream ==
    SelectSeq(glob.error_df, LAMBDA r : r.error_type = "query_execution")

\* C12: every validation result receives an id from its own stream's counter,
\* incremented once per result: the persisted successes carry the ids 1, 2, ...
\* in emission order, the persisted failures carry the ids 1, 2, ... of their
\* own stream in emission order, and no id is repeated within a stream.
C12_IdsPerStream ==
    /\ \A i \in 1..Len(executable_queries) : executable_queries[i].id = i
    /\ \A i \in 1..Len(FailureStream) :
          /\ "id" \in DOMAIN FailureStream[i]
          /\ FailureStream[i].id = i

\* The table the sandbox holds after the statement of lines 139-146 for a row
\* of tables_with_columns.
Materialized(row) ==
    LET stmt == CreateTableStatement(CompleteQuotedTableName(row.table_name), row.columns)
    IN  [name |-> lower(stmt.table), columns |-> stmt.columns, rows |-> <<>>]

C14_CountsAccountForAll ==
    (pc \in {"repos", "done"} /\ iter.repo_idx > 0)
        => /\ eq.n_sucessful + eq.n_failed = Len(db.queries)
           /\ glob.n_successful_table_creations + glob.n_failed_table_creations
                  = Len(db.tables)

\* C16: within a repository pass every candidate statement reaches the sandbox
\* only inside the explain wrapper; none is executed directly for its results.
C16_ExplainOnly == \A r \in sandbox.ran : r.explain

\* The repositories of the main database with at least one SELECT statement.
CandidateRepos ==
    (IF db.other_repo THEN {DebugRepoId + 1} ELSE {})
        \cup (IF Len(db.queries) > 0 THEN {DebugRepoId} ELSE {})

\* The repositories whose pass the run has completed, in order.
PassesDone == SubSeq(iter.repos, 1, iter.repo_idx)

\* C18: the run never ends in an exception, and when it has finished it has
\* made one pass, and only one, for every repository with at least one
\* SELECT statement.
C18_EveryRepoOnce ==
    /\ pc # "raised"
    /\ pc = "done" =>
          \A repo_id \in CandidateRepos :
              Cardinality({i \in 1..Len(PassesDone) : PassesDone[i].id = repo_id}) = 1

\* The steps of a repository pass in their order: open, macros, tables,
\* statements, close.
PassEdges ==
    { <<"start", "repos">>, <<"repos", "macros">>, <<"macros", "fetch_tables">>,
      <<"fetch_tables", "tables">>, <<"tables", "tables">>, <<"tables", "raised">>,
      <<"tables", "queries">>, <<"queries", "queries">>, <<"queries", "repos">>,
      <<"repos", "done">> }

\* C20: a pass opens the sandbox, installs the macros, synthesizes the
\* tables and then runs the statements, in this order; a statement is run
\* only on an open sandbox that holds every macro and after the last table
\* of the repository has been attempted, and neither a macro nor a table is
\* added once the statements have begun.
C20_MacrosAndTablesFirst ==
    [][ /\ <<pc, pc'>> \in PassEdges
        /\ sandbox'.ran \ sandbox.ran # {} =>
              /\ pc = "queries"
              /\ sandbox.open
              /\ sandbox.macros = {"add_days", "add_months", "add_years"}
              /\ ct.table_idx = Len(ct.tables_with_columns)
              /\ ct.tables_with_columns = TablesOf(db, Repo.id)
              /\ sandbox'.macros = sandbox.macros
              /\ sandbox'.tables = sandbox.tables
        /\ (sandbox'.macros # sandbox.macros \/ sandbox'.tables # sandbox.tables) =>
              sandbox.ran = {} \/ pc' = "repos" ]_vars

\* The second statement of a repository has been run on a sandbox that holds
\* the macros and a synthesized table.
C20_Witness ==
    /\ pc = "queries"
    /\ eq.query_idx = 2
    /\ Cardinality(sandbox.ran) = 2
    /\ sandbox.tables # {}
    /\ Len(ct.tables_with_columns) = 2
    /\ sandbox.macros = {"add_days", "add_months", "add_years"}

\* C21: outside a repository pass no sandbox is open: the sandbox of a pass
\* is closed when the pass ends, on every path, also when the pass ends
\* because a table synthesis failed.
C21_SandboxClosedAfterPass ==
    pc \in {"start", "repos", "done", "raised"} => ~sandbox.open

\* The table_creation rows of error_df, in emission order.
SchemaErrors ==
    SelectSeq(glob.error_df, LAMBDA r : r.error_type = "table_creation")

C28_ReturnedTablesMatchSandbox ==
    pc \in {"tables", "queries"} =>
        \A i \in 1..Len(ct.tables) :
            \E t \in SandboxTable(ct.tables[i]) :
                t.columns =
                    [j \in 1..Len(ct.tables[i].columns) |->
                        [name |-> prepare_sql_for_duckdb(
                                      quote_name(ct.tables[i].columns[j].column_name)),
                         type |-> base_type_to_duckdb_type(
                                      ct.tables[i].columns[j].column_base_type)]]

(***************************************************************************)
(* Specification of the dialect normalizer: a statement is normalized, and *)
(* the result is normalized again (try_to_fix_query keeps the normalized   *)
(* text, which the validator normalizes once more).                        *)
(***************************************************************************)

InitNorm ==
    /\ sql_in \in SqlInputs
    /\ sql_once = <<>>
    /\ sql_twice = <<>>
    /\ norm_pc = "ready"
    /\ UnifyIdle
    /\ MockIdle
    /\ RunIdle
    /\ ExtractIdle
    /\ LoadIdle
    /\ sandbox = ClosedSandbox

Normalize ==
    /\ norm_pc = "ready"
    /\ sql_once' = prepare_sql_statically(sql_in)
    /\ norm_pc' = "once"
    /\ UNCHANGED <<extractVars, loadVars, sql_in, sql_twice, unifyVars, mockVars, sandbox, runVars>>

NormalizeAgain ==
    /\ norm_pc = "once"
    /\ sql_twice' = prepare_sql_statically(sql_once)
    /\ norm_pc' = "twice"
    /\ UNCHANGED <<extractVars, loadVars, sql_in, sql_once, unifyVars, mockVars, sandbox, runVars>>

NextNorm == Normalize \/ NormalizeAgain

SpecNorm == InitNorm /\ [][NextNorm]_vars

(***************************************************************************)
(* Claims about the dialect normalizer                                     *)
(***************************************************************************)

\* C2: dialect normalization is idempotent: normalize(normalize(s)) = normalize(s)
\* for every statement text s; no rule rewrites the output of a first pass.
C2_NormalizeIdempotent == norm_pc = "twice" => sql_twice = sql_once

\* The statements that hold a `LIMIT offset, count` clause, with the clause the
\* rewrite is to leave in its place.
LimitCases ==
    { [text |-> before \o LimitClause(Cased(Lit.limit, c), w, n1, offset, n2, n3, count)
                       \o after,
       lower_case |-> before \o Lit.limit \o <<" ">> \o count \o Lit.offset \o offset
                       \o after,
       upper_case |-> before \o upper(Lit.limit \o <<" ">> \o count \o Lit.offset \o offset)
                       \o after] :
        before \in ContextsBefore, after \in ContextsAfter,
        c \in LetterCases, w \in {" ", "\t"}, n1 \in 1..MaxWs, offset \in LimitNumbers,
        n2 \in 0..MaxWs, n3 \in 0..MaxWs, count \in LimitNumbers }

RandCases ==
    { [text |-> before \o call \o after,
       lower_case |-> before \o Lit.random_call \o after,
       upper_case |-> before \o upper(Lit.random_call) \o after] :
        before \in { <<>>, <<"x", " ">> }, call \in RandCalls, after \in ContextsAfter }

\* The statements where rand only ends a longer name (brand(), _rand()) or is
\* no call (rand, rand_id).
RandLookalikes ==
    RandIdentifiers
    \cup { before \o call \o after :
             before \in { <<"b">>, <<"_">> }, call \in RandCalls, after \in ContextsAfter }

SpacedOperators ==
    { <<">", " ", "=">>, <<"<", " ", "=">>, <<"!", " ", "=">>, <<"=", " ", "=">> }

\* C25: the normalized text holds no spaced comparison operator, and a text
\* made of spaced operators and operands comes back with every operator
\* written without its inner space.
C25_OperatorsCollapsed ==
    norm_pc # "ready" =>
        /\ \A op \in SpacedOperators : ~Contains(sql_once, op)
        /\ \A n \in 0..MaxTokens :
              \A ts \in [1..n -> SpacedOperators \cup {<<"x">>}] :
                  sql_in = Concat(ts) =>
                      sql_once = Concat([i \in 1..n |->
                                     IF ts[i] \in SpacedOperators
                                     THEN <<ts[i][1], ts[i][3]>> ELSE ts[i]])

(***************************************************************************)
(* Specification of the string extractor: the calls of                     *)
(* test_extract_strings on one file, with and without dedupe, on the       *)
(* snippet and on the snippet written twice.                               *)
(***************************************************************************)

InitExtract ==
    /\ source \in SourceFiles
    /\ got = [call \in Calls |-> NotCalled]
    /\ LoadIdle
    /\ UnifyIdle
    /\ NormIdle
    /\ MockIdle
    /\ RunIdle
    /\ sandbox = ClosedSandbox

CallExtractStrings ==
    \E dedupe \in BOOLEAN, twice \in BOOLEAN :
        /\ ~got[<<dedupe, twice>>].called
        /\ got' = [got EXCEPT ![<<dedupe, twice>>] =
                      [ called |-> TRUE,
                        strings |-> extract_strings(
                            IF twice THEN source \o source ELSE source, dedupe) ]]
        /\ UNCHANGED <<source, loadVars, unifyVars, normVars, mockVars, sandbox, runVars>>

NextExtract == CallExtractStrings

SpecExtract == InitExtract /\ [][NextExtract]_vars

(***************************************************************************)
(* Claims about the string extractor                                       *)
(***************************************************************************)

NoDuplicates(list) == \A i, j \in 1..Len(list) : list[i] = list[j] => i = j

FirstIndex(list, s) ==
    CHOOSE i \in 1..Len(list) : list[i] = s /\ \A j \in 1..(i - 1) : list[j] # s

\* deduped holds each string of list once, in the order of first occurrence.
FirstOccurrences(list, deduped) ==
    /\ NoDuplicates(deduped)
    /\ {deduped[i] : i \in 1..Len(deduped)} = {list[i] : i \in 1..Len(list)}
    /\ \A i, j \in 1..Len(deduped) :
          i < j => FirstIndex(list, deduped[i]) < FirstIndex(list, deduped[j])

\* C17: with dedupe the extractor returns each distinct string it collects
\* once, in the order of first occurrence, and returns a duplicate-free list
\* as it is; without dedupe it returns every occurrence in source order, so
\* the snippet written twice gives the snippet's list twice, and the
\* deduplicated list of the doubled snippet is that of the snippet.
C17_DedupeFirstOccurrence ==
    LET plain == got[<<FALSE, FALSE>>]
        deduped == got[<<TRUE, FALSE>>]
        plain2 == got[<<FALSE, TRUE>>]
        deduped2 == got[<<TRUE, TRUE>>]
    IN  /\ (plain.called /\ deduped.called) =>
              /\ FirstOccurrences(plain.strings, deduped.strings)
              /\ NoDuplicates(plain.strings) => deduped.strings = plain.strings
        /\ (plain.called /\ plain2.called) =>
              /\ plain2.strings = plain.strings \o plain.strings
              /\ Len(plain2.strings) = 2 * Len(plain.strings)
        /\ (plain2.called /\ deduped2.called) =>
              FirstOccurrences(plain2.strings, deduped2.strings)
        /\ (deduped.called /\ deduped2.called) =>
              deduped2.strings = deduped.strings

\* All four calls have returned for a file whose first string comes back
\* after a different one, as in test_dedupe_preserves_order.
C17_Witness ==
    /\ \A call \in Calls : got[call].called
    /\ Len(got[<<FALSE, FALSE>>].strings) = 3
    /\ got[<<FALSE, FALSE>>].strings[1] = got[<<FALSE, FALSE>>].strings[3]
    /\ got[<<FALSE, FALSE>>].strings[1] # got[<<FALSE, FALSE>>].strings[2]
    /\ Len(got[<<TRUE, FALSE>>].strings) = 2

(***************************************************************************)
(* Specification of the loaders: load_schemapile_json_to_database, then    *)
(* get_schemas_from_create_query, one table per step.                      *)
(***************************************************************************)

\* Lines 127-134 of load_schemapile_json_to_ddb.py: the tables relation is
\* created anew; table_id_counter is 0 after import.
InitLoad ==
    /\ data \in LoaderInputs
    /\ load = LoaderLocals("files")
    /\ tables_relation = <<>>
    /\ UnifyIdle
    /\ NormIdle
    /\ MockIdle
    /\ RunIdle
    /\ ExtractIdle
    /\ sandbox = ClosedSandbox

\* Lines 68-88 for one table: the id is taken, then the table is skipped
\* when its repository has a table of that name, and inserted otherwise.
process_repository ==
    /\ load.pc = "files"
    /\ load.idx < Len(data.files)
    /\ LET file == data.files[load.idx + 1]
           table_id == get_id(load.table_id_counter)
           existing_table ==
               \E i \in 1..Len(tables_relation) :
                   /\ tables_relation[i].repo = file.repo
                   /\ tables_relation[i].table_name_clean = file.table
       IN  /\ load' = [load EXCEPT !.table_id_counter = table_id, !.idx = @ + 1]
           /\ tables_relation' =
                  IF existing_table THEN tables_relation
                  ELSE Append(tables_relation,
                              [id |-> table_id, repo |-> file.repo,
                               table_name_clean |-> file.table])
    /\ UNCHANGED <<data, extractVars, unifyVars, normVars, mockVars, sandbox, runVars>>

\* Lines 128-155 of get_schemas_from_create_query.py: the rows are counted
\* and the CREATE queries of a table that no repository has are selected.
SelectCreateQueries ==
    /\ load.pc = "files"
    /\ load.idx = Len(data.files)
    /\ load' = [load EXCEPT
                  !.pc = "create_queries",
                  !.idx = 0,
                  !.n_tables_currently = Len(tables_relation),
                  !.create_queries =
                      SelectSeq(data.queries,
                                LAMBDA q : \A i \in 1..Len(tables_relation) :
                                               tables_relation[i].table_name_clean # q.table)]
    /\ UNCHANGED <<data, tables_relation, extractVars, unifyVars, normVars, mockVars,
                   sandbox, runVars>>

\* Lines 162-182 for one query: a query that does not parse is counted as an
\* error, a table its repository has by now is skipped, and a new table
\* gets the id n_tables_currently + n_new_tables.
InsertCreatedTable ==
    /\ load.pc = "create_queries"
    /\ load.idx < Len(load.create_queries)
    /\ LET query == load.create_queries[load.idx + 1]
           existing_table ==
               \E i \in 1..Len(tables_relation) :
                   /\ tables_relation[i].repo = query.repo
                   /\ tables_relation[i].table_name_clean = query.table
           n_new_tables == load.n_new_tables + 1
           table_id == load.n_tables_currently + n_new_tables
       IN  IF ~query.parses
           THEN /\ load' = [load EXCEPT !.n_erros = @ + 1, !.idx = @ + 1]
                /\ UNCHANGED tables_relation
           ELSE IF existing_table
           THEN /\ load' = [load EXCEPT !.idx = @ + 1]
                /\ UNCHANGED tables_relation
           ELSE /\ load' = [load EXCEPT !.n_new_tables = n_new_tables, !.idx = @ + 1]
                /\ tables_relation' =
                       Append(tables_relation,
                              [id |-> table_id, repo |-> query.repo,
                               table_name_clean |-> query.table])
    /\ UNCHANGED <<data, extractVars, unifyVars, normVars, mockVars, sandbox, runVars>>

\* Lines 209-211: the loop is over.
FinishLoad ==
    /\ load.pc = "create_queries"
    /\ load.idx = Len(load.create_queries)
    /\ load' = [load EXCEPT !.pc = "done"]
    /\ UNCHANGED <<data, tables_relation, extractVars, unifyVars, normVars, mockVars,
                   sandbox, runVars>>

NextLoad ==
    \/ process_repository
    \/ SelectCreateQueries
    \/ InsertCreatedTable
    \/ FinishLoad

SpecLoad == InitLoad /\ [][NextLoad]_vars

(***************************************************************************)
(* Claims about the loaders                                                *)
(***************************************************************************)

\* C29: no two rows of the tables relation share an id, also after
\* get_schemas_from_create_query has added its tables to the ones of
\* load_schemapile_json_to_database, and also when get_id gave out an id
\* for a table that process_repository then skipped.
C29_TableIdsUnique ==
    \A i, j \in 1..Len(tables_relation) :
        tables_relation[i].id = tables_relation[j].id => i = j

=============================================================================
